---- MODULE Spec2Model ----
(***************************************************************************)
(* Model of the terminal prompt builder: the App state machine of          *)
(* internal/tui/app.go (focus, menu-binding mode, debug mode, layout),     *)
(* the panels it coordinates and the messages that flow between them.      *)
(*                                                                         *)
(* The Go program is a bubbletea model: one message at a time is handed to *)
(* App.Update, which returns the commands whose results are delivered as   *)
(* later messages.  The App value is modelled as the record `app`, the     *)
(* results of commands not yet delivered as the bag `pending`.             *)
(***************************************************************************)
EXTENDS Integers, Sequences, FiniteSets, Bags, TLC

VARIABLES
    app,      \* the *App value: its fields and the panels it points to
    pending,  \* bag of commands returned by Update whose message is not yet delivered
    cmds,     \* the commands returned by the last call (its tea.Cmd result)
    lastMsg,  \* the message handled by the last call
    lastCall, \* which entry point the last call went through
    quit,     \* tea.Quit was returned: the program has ended
    gm,       \* the *GitignoreMatcher built for the root directory
    query,    \* the last ShouldIgnore call: its arguments and its result
    disk,     \* the directory the program was started on, as it is on disk
    built,    \* the last scan or file tree generation: the call and its result
    sm,       \* the *SettingsManager: its settings, watcher and callback
    sys       \* what lies around it: the settings file, the watchers created,
              \* the goroutines running watchLoop, the last error returned

vars == <<app, pending, cmds, lastMsg, lastCall, quit, gm, query, disk, built, sm, sys>>

\* ------------------------------------------------------------------------
\* FocusedPanel (iota constants)
FileTreePanel == 0
SelectedFilesPanel == 1
ChatPanel == 2
FooterMenuPanel == 3

\* ------------------------------------------------------------------------
\* Bounds of the model
PanelMargin == 1           \* how far past the panels a FocusChangeMsg's integer goes
MaxPending == 2            \* commands in flight at any time
SmallWidth == 12           \* a narrow terminal
SmallHeight == 14          \* a short terminal
LargeWidth == 200          \* a wide terminal
LargeHeight == 24          \* a tall terminal
TinyWidth == 8             \* a terminal too narrow for the panel's content
TinyHeight == 10           \* a terminal too short for the panel's content

PanelValues == (FileTreePanel - PanelMargin)..(FooterMenuPanel + PanelMargin)
Widths == {-1, 0, SmallWidth}
Heights == {-1, 0, SmallHeight}

\* ------------------------------------------------------------------------
\* Messages
FocusChangeMsg(p) == [type |-> "FocusChangeMsg", Panel |-> p]
MenuModeChangeMsg(e) == [type |-> "MenuModeChangeMsg", Enabled |-> e]
DebugModeChangeMsg(e) == [type |-> "DebugModeChangeMsg", Enabled |-> e]
LayoutChangeMsg(w, h) == [type |-> "LayoutChangeMsg", Width |-> w, Height |-> h]
\* the message an alert command of the notification library delivers
AlertMsg(alertType) == [type |-> "AlertMsg", alertType |-> alertType]
NoMsg == [type |-> "none"]

StateChangeMsgs ==
    {FocusChangeMsg(p) : p \in PanelValues}
    \cup {MenuModeChangeMsg(e) : e \in BOOLEAN}
    \cup {DebugModeChangeMsg(e) : e \in BOOLEAN}
    \cup {LayoutChangeMsg(w, h) : w \in Widths, h \in Heights}

\* ------------------------------------------------------------------------
\* Integer helpers

\* Go's int(float64(n) * pct/100): the product truncated toward zero
TruncPercent(n, pct) ==
    IF n >= 0 THEN (n * pct) \div 100 ELSE -(((-n) * pct) \div 100)

\* Go's integer division by two, truncated toward zero
Half(n) == IF n >= 0 THEN n \div 2 ELSE -((-n) \div 2)

max(x, y) == IF x > y THEN x ELSE y

\* Go map lookup: an absent key reads as false
Lookup(m, k) == IF k \in DOMAIN m THEN m[k] ELSE FALSE

\* Go map assignment m[k] = v
MapSet(m, k, v) == [x \in (DOMAIN m) \cup {k} |-> IF x = k THEN v ELSE m[x]]

EmptyMap == [x \in {} |-> FALSE]

\* ------------------------------------------------------------------------
\* filesystem: FileNode and FlattenTree

FileNode(name, path, isDir, children) ==
    [Name |-> name, Path |-> path, IsDir |-> isDir, Children |-> children]

RECURSIVE FlattenTree(_, _, _)
RECURSIVE FlattenChildren(_, _, _)

\* the loop over root.Children of FlattenTree
FlattenChildren(children, level, expanded) ==
    IF children = <<>> THEN <<>>
    ELSE FlattenTree(Head(children), level, expanded)
         \o FlattenChildren(Tail(children), level, expanded)

\* FlattenTree that lists the children of every directory, expanded or not
FlattenTree_alwaysOpen(root, level, expanded) ==
    LET item == [Name |-> root.Name, Path |-> root.Path, IsDir |-> root.IsDir,
                 Level |-> level, Expanded |-> Lookup(expanded, root.Path),
                 Selected |-> FALSE]
    IN IF root.IsDir
       THEN <<item>> \o FlattenChildren(root.Children, level + 1, expanded)
       ELSE <<item>>

FlattenTree(root, level, expanded) ==
    LET item == [Name |-> root.Name, Path |-> root.Path, IsDir |-> root.IsDir,
                 Level |-> level, Expanded |-> Lookup(expanded, root.Path),
                 Selected |-> FALSE]
    IN IF root.IsDir /\ Lookup(expanded, root.Path)
       THEN <<item>> \o FlattenChildren(root.Children, level + 1, expanded)
       ELSE <<item>>

\* The directory the program was started on, as ScanDirectory returned it
\* (a path is the sequence of its segments)
ScannedRoot ==
    FileNode("ws", <<"ws">>, TRUE,
        << FileNode("a.txt", <<"ws", "a.txt">>, FALSE, <<>>),
           FileNode("d", <<"ws", "d">>, TRUE,
               << FileNode("b.txt", <<"ws", "d", "b.txt">>, FALSE, <<>>) >>) >>)

\* ScanDirectory on a directory with a directory inside a directory
DeepRoot ==
    FileNode("ws", <<"ws">>, TRUE,
        << FileNode("a.txt", <<"ws", "a.txt">>, FALSE, <<>>),
           FileNode("d", <<"ws", "d">>, TRUE,
               << FileNode("e", <<"ws", "d", "e">>, TRUE,
                      << FileNode("c.txt", <<"ws", "d", "e", "c.txt">>, FALSE, <<>>) >>),
                  FileNode("b.txt", <<"ws", "d", "b.txt">>, FALSE, <<>>) >>),
           FileNode("z.txt", <<"ws", "z.txt">>, FALSE, <<>>) >>)

\* ScanDirectory on a directory that holds nothing to list
EmptyRoot == FileNode("ws", <<"ws">>, TRUE, <<>>)

\* the files of the scanned directory
FilePaths == {<<"ws", "a.txt">>, <<"ws", "d", "b.txt">>}

\* filepath.Base
Base(path) == path[Len(path)]

\* ------------------------------------------------------------------------
\* GitignoreMatcher (internal/filesystem/gitignore.go).  A string is the
\* sequence of its characters; a path is given relative to the root, the way
\* filepath.Rel and filepath.ToSlash hand it to the patterns.

\* the line "*.log"
StarLog == <<"*", ".", "l", "o", "g">>

\* the line "!important.log"
NotImportantLog == <<"!", "i", "m", "p", "o", "r", "t", "a", "n", "t", ".", "l", "o", "g">>

\* the line "build/"
BuildDir == <<"b", "u", "i", "l", "d", "/">>

\* the line "/build"
RootedBuild == <<"/", "b", "u", "i", "l", "d">>

\* the line "!build/output.txt"
NotBuildOutput == <<"!", "b", "u", "i", "l", "d", "/", "o", "u", "t", "p", "u", "t", ".", "t", "x", "t">>

\* the line "subdir/"
SubdirDir == <<"s", "u", "b", "d", "i", "r", "/">>

\* the line "*"
SingleStar == <<"*">>

\* the line "**"
DoubleStar == <<"*", "*">>

\* the line "# logs"
CommentLine == <<"#", " ", "l", "o", "g", "s">>

\* the line ""
BlankLine == <<>>

\* the lines a .gitignore file is made of
GitignoreLines ==
    {StarLog,
     NotImportantLog,
     BuildDir,
     RootedBuild,
     NotBuildOutput,
     SubdirDir,
     SingleStar,
     DoubleStar,
     CommentLine,
     BlankLine}

MaxGitignoreLines == 2   \* lines of a .gitignore file

\* the .gitignore files: every sequence of at most MaxGitignoreLines lines
GitignoreFiles ==
    UNION {[1..n -> GitignoreLines] : n \in 0..MaxGitignoreLines}

\* the path "."
Dot == <<".">>

\* the path "error.log"
ErrorLog == <<"e", "r", "r", "o", "r", ".", "l", "o", "g">>

\* the path "important.log"
ImportantLog == <<"i", "m", "p", "o", "r", "t", "a", "n", "t", ".", "l", "o", "g">>

\* the path "build"
Build == <<"b", "u", "i", "l", "d">>

\* the path "build/output.txt"
BuildOutput == <<"b", "u", "i", "l", "d", "/", "o", "u", "t", "p", "u", "t", ".", "t", "x", "t">>

\* the path "build/sub/output.txt"
BuildSubOutput == <<"b", "u", "i", "l", "d", "/", "s", "u", "b", "/", "o", "u", "t", "p", "u", "t", ".", "t", "x", "t">>

\* the path "build/important.log"
BuildImportantLog == <<"b", "u", "i", "l", "d", "/", "i", "m", "p", "o", "r", "t", "a", "n", "t", ".", "l", "o", "g">>

\* the path "src/build/main.go"
SrcBuildMain == <<"s", "r", "c", "/", "b", "u", "i", "l", "d", "/", "m", "a", "i", "n", ".", "g", "o">>

\* the path "src/main.go"
SrcMain == <<"s", "r", "c", "/", "m", "a", "i", "n", ".", "g", "o">>

\* the paths ShouldIgnore is asked about
QueryPaths ==
    {Dot,
     ErrorLog,
     ImportantLog,
     Build,
     BuildOutput,
     BuildSubOutput,
     BuildImportantLog,
     SrcBuildMain,
     SrcMain}

\* addDefaultPatterns: the lines used when no pattern was loaded
defaultPatterns ==
    << <<".", "g", "i", "t", "/">>,
       <<".", "s", "v", "n", "/">>,
       <<".", "h", "g", "/">>,
       <<"n", "o", "d", "e", "_", "m", "o", "d", "u", "l", "e", "s", "/">>,
       <<"v", "e", "n", "d", "o", "r", "/">>,
       <<"t", "a", "r", "g", "e", "t", "/">>,
       <<"b", "u", "i", "l", "d", "/">>,
       <<"d", "i", "s", "t", "/">>,
       <<"_", "_", "p", "y", "c", "a", "c", "h", "e", "_", "_", "/">>,
       <<".", "D", "S", "_", "S", "t", "o", "r", "e">>,
       <<"T", "h", "u", "m", "b", "s", ".", "d", "b">>,
       <<"*", ".", "t", "m", "p">>,
       <<"*", ".", "l", "o", "g">> >>

HasPrefix(str, c) == Len(str) > 0 /\ str[1] = c
HasSuffix(str, c) == Len(str) > 0 /\ str[Len(str)] = c

\* strings.TrimSpace, for lines whose only blanks are at their ends
RECURSIVE TrimSpace(_)
TrimSpace(line) ==
    IF HasPrefix(line, " ") THEN TrimSpace(Tail(line))
    ELSE IF HasSuffix(line, " ") THEN TrimSpace(SubSeq(line, 1, Len(line) - 1))
    ELSE line

\* The compiled expression.  QuoteMeta makes every character literal; then
\* "**" becomes ".*", "*" becomes "[^/]*" and "?" becomes "[^/]".
RECURSIVE regexTokens(_)
regexTokens(pattern) ==
    IF pattern = <<>> THEN <<>>
    ELSE IF Len(pattern) >= 2 /\ pattern[1] = "*" /\ pattern[2] = "*"
    THEN <<[kind |-> "any"]>> \o regexTokens(SubSeq(pattern, 3, Len(pattern)))
    ELSE IF pattern[1] = "*" THEN <<[kind |-> "star"]>> \o regexTokens(Tail(pattern))
    ELSE IF pattern[1] = "?" THEN <<[kind |-> "one"]>> \o regexTokens(Tail(pattern))
    ELSE <<[kind |-> "lit", char |-> pattern[1]]>> \o regexTokens(Tail(pattern))

\* gitignoreToRegex that leaves out the "(/.*)?" for what lies inside
gitignoreToRegex_noNested(pattern) ==
    IF HasPrefix(pattern, "/")
    THEN [anchored |-> TRUE, tokens |-> regexTokens(Tail(pattern)), nested |-> FALSE]
    ELSE [anchored |-> FALSE, tokens |-> regexTokens(pattern), nested |-> FALSE]

\* gitignoreToRegex: "^" for a leading slash, "(^|/)" otherwise, the
\* translated pattern, then "(/.*)?$"
gitignoreToRegex(pattern) ==
    IF HasPrefix(pattern, "/")
    THEN [anchored |-> TRUE, tokens |-> regexTokens(Tail(pattern)), nested |-> TRUE]
    ELSE [anchored |-> FALSE, tokens |-> regexTokens(pattern), nested |-> TRUE]

\* the tokens, then "(/.*)?$" or "$", matched against the rest of the string
RECURSIVE matchHere(_, _, _)
matchHere(tokens, nested, str) ==
    IF tokens = <<>> THEN str = <<>> \/ (nested /\ str[1] = "/")
    ELSE CASE tokens[1].kind = "lit" ->
                str # <<>> /\ str[1] = tokens[1].char
                    /\ matchHere(Tail(tokens), nested, Tail(str))
           [] tokens[1].kind = "one" ->
                str # <<>> /\ str[1] # "/" /\ matchHere(Tail(tokens), nested, Tail(str))
           [] tokens[1].kind = "star" ->
                \/ matchHere(Tail(tokens), nested, str)
                \/ str # <<>> /\ str[1] # "/" /\ matchHere(tokens, nested, Tail(str))
           [] tokens[1].kind = "any" ->
                \/ matchHere(Tail(tokens), nested, str)
                \/ str # <<>> /\ matchHere(tokens, nested, Tail(str))

\* Regex.MatchString: the expression matches somewhere in the string; "^"
\* holds at its start only, "(^|/)" at its start and after every slash
MatchString(regex, str) ==
    \/ matchHere(regex.tokens, regex.nested, str)
    \/ /\ ~regex.anchored
       /\ \E i \in 1..Len(str) :
             str[i] = "/" /\ matchHere(regex.tokens, regex.nested,
                                       SubSeq(str, i + 1, Len(str)))

\* the line without a leading "!"
withoutBang(line) == IF HasPrefix(line, "!") THEN Tail(line) ELSE line

\* the line without a trailing "/"
withoutSlash(line) ==
    IF HasSuffix(line, "/") THEN SubSeq(line, 1, Len(line) - 1) ELSE line

\* parsePattern: <<>> for a line that gives no pattern, else <<pattern>>
parsePattern(line) ==
    IF line = <<>> \/ HasPrefix(line, "#") THEN <<>>
    ELSE << [Pattern |-> withoutSlash(withoutBang(line)),
             IsNegative |-> HasPrefix(line, "!"),
             IsDir |-> HasSuffix(withoutBang(line), "/"),
             Regex |-> gitignoreToRegex(withoutSlash(withoutBang(line)))] >>

\* loadGitignore: the patterns of the lines, in file order
RECURSIVE loadGitignore(_)
loadGitignore(lines) ==
    IF lines = <<>> THEN <<>>
    ELSE parsePattern(TrimSpace(Head(lines))) \o loadGitignore(Tail(lines))

\* the patterns in use: those loaded, the defaults when none was loaded
patternsOrDefaults(loaded) ==
    IF loaded = <<>> THEN loadGitignore(defaultPatterns) ELSE loaded

\* NewGitignoreMatcher on a root whose .gitignore holds `lines`
NewGitignoreMatcher(lines) ==
    [patterns |-> patternsOrDefaults(loadGitignore(lines)), rootPath |-> Dot]

\* the loop of ShouldIgnore: the verdict after the patterns, given the verdict
\* before them
RECURSIVE ignoredAfter(_, _, _)
ignoredAfter(patterns, relPath, ignored) ==
    IF patterns = <<>> THEN ignored
    ELSE ignoredAfter(Tail(patterns), relPath,
                      IF MatchString(Head(patterns).Regex, relPath)
                      THEN ~Head(patterns).IsNegative ELSE ignored)

\* ShouldIgnore deciding by the first pattern that matches
ShouldIgnore_firstMatch(matcher, relPath, isDir) ==
    /\ relPath # Dot
    /\ \E i \in 1..Len(matcher.patterns) :
          /\ MatchString(matcher.patterns[i].Regex, relPath)
          /\ ~matcher.patterns[i].IsNegative
          /\ \A j \in 1..(i - 1) : ~MatchString(matcher.patterns[j].Regex, relPath)

\* ShouldIgnore putting the root through the patterns like any other path
ShouldIgnore_rootToo(matcher, relPath, isDir) ==
    ignoredAfter(matcher.patterns, relPath, FALSE)

\* ShouldIgnore; isDir does not enter the decision
ShouldIgnore(matcher, relPath, isDir) ==
    IF relPath = Dot THEN FALSE
    ELSE ignoredAfter(matcher.patterns, relPath, FALSE)

\* ------------------------------------------------------------------------
\* The directory on disk.  An entry is a file, a directory ("dir"), a
\* directory that cannot be read ("locked") or a symbolic link to nothing
\* ("dangling"); the children are in name order, the order os.ReadDir and
\* filepath.Walk list them in.

DirEntry(name, kind, children) == [Name |-> name, Kind |-> kind, Children |-> children]

\* the name ".gitignore"
GitignoreName == <<".", "g", "i", "t", "i", "g", "n", "o", "r", "e">>

\* root-file.txt and subdir/nested.txt
ExampleDir ==
    << DirEntry(<<"r", "o", "o", "t", "-", "f", "i", "l", "e", ".", "t", "x", "t">>, "file",
           <<>>),
       DirEntry(<<"s", "u", "b", "d", "i", "r">>, "dir",
           << DirEntry(<<"n", "e", "s", "t", "e", "d", ".", "t", "x", "t">>, "file",
                  <<>>) >>) >>

\* build/output.txt, error.log and src/main.go
BuildTreeDir ==
    << DirEntry(<<"b", "u", "i", "l", "d">>, "dir",
           << DirEntry(<<"o", "u", "t", "p", "u", "t", ".", "t", "x", "t">>, "file",
                  <<>>) >>),
       DirEntry(<<"e", "r", "r", "o", "r", ".", "l", "o", "g">>, "file",
           <<>>),
       DirEntry(<<"s", "r", "c">>, "dir",
           << DirEntry(<<"m", "a", "i", "n", ".", "g", "o">>, "file",
                  <<>>) >>) >>

\* .env, important.log and notes.txt
HiddenDir ==
    << DirEntry(<<".", "e", "n", "v">>, "file",
           <<>>),
       DirEntry(<<"i", "m", "p", "o", "r", "t", "a", "n", "t", ".", "l", "o", "g">>, "file",
           <<>>),
       DirEntry(<<"n", "o", "t", "e", "s", ".", "t", "x", "t">>, "file",
           <<>>) >>

\* a.txt, a link to nothing, a directory that cannot be read, and z.txt
DamagedDir ==
    << DirEntry(<<"a", ".", "t", "x", "t">>, "file",
           <<>>),
       DirEntry(<<"g", "o", "n", "e">>, "dangling",
           <<>>),
       DirEntry(<<"l", "o", "c", "k", "e", "d">>, "locked",
           << DirEntry(<<"x", ".", "t", "x", "t">>, "file",
                  <<>>) >>),
       DirEntry(<<"z", ".", "t", "x", "t">>, "file",
           <<>>) >>

\* a directory holding a directory that cannot be read, and z.txt
DamagedBelowDir ==
    << DirEntry(<<"d">>, "dir",
           << DirEntry(<<"b", ".", "t", "x", "t">>, "file",
                  <<>>),
              DirEntry(<<"l", "o", "c", "k", "e", "d">>, "locked",
                  << DirEntry(<<"x", ".", "t", "x", "t">>, "file",
                         <<>>) >>) >>),
       DirEntry(<<"z", ".", "t", "x", "t">>, "file",
           <<>>) >>

\* the directories every entry of which can be read
ReadableDirs == {ExampleDir, BuildTreeDir, HiddenDir}

\* the directories with an entry that cannot be read
DamagedDirs == {DamagedDir, DamagedBelowDir}

\* the root directory holding the entries, and a .gitignore of the lines when
\* hasFile (".gitignore" sorts before every other name used here)
DiskOf(entries, hasFile, lines) ==
    [root |-> DirEntry(Dot, "dir",
                 IF hasFile THEN <<DirEntry(GitignoreName, "file", <<>>)>> \o entries
                 ELSE entries),
     hasGitignore |-> hasFile,
     gitignore |-> lines]

\* the root directories the program is started on
Disks(dirs) ==
    {DiskOf(entries, FALSE, <<>>) : entries \in dirs}
    \cup {DiskOf(entries, TRUE, lines) : entries \in dirs, lines \in GitignoreFiles}

\* filepath.Join of a directory below the root "." and a name
Join(dir, name) == IF dir = Dot THEN name ELSE dir \o <<"/">> \o name

\* os.Stat fails on the entry
StatFails(entry) == entry.Kind = "dangling"

\* info.IsDir() of os.Stat and os.Lstat
EntryIsDir(entry) == entry.Kind \in {"dir", "locked"}

\* shouldIgnore of the scanner: hidden names and the fixed list
ScannerIgnored ==
    {<<".">>, <<"n", "o", "d", "e", "_", "m", "o", "d", "u", "l", "e", "s">>, <<".", "g", "i", "t">>, <<".", "s", "v", "n">>, <<".", "h", "g">>, <<"v", "e", "n", "d", "o", "r">>, <<"t", "a", "r", "g", "e", "t">>, <<"b", "u", "i", "l", "d">>, <<"d", "i", "s", "t">>, <<"_", "_", "p", "y", "c", "a", "c", "h", "e", "_", "_">>, <<".", "D", "S", "_", "S", "t", "o", "r", "e">>, <<"T", "h", "u", "m", "b", "s", ".", "d", "b">>}

shouldIgnore(name) == HasPrefix(name, ".") \/ name \in ScannerIgnored

RECURSIVE ScanDirectory(_, _)
RECURSIVE scanEntries(_, _)

\* the loop of ScanDirectory over the entries of a directory
scanEntries(entries, rootPath) ==
    IF entries = <<>> THEN <<>>
    ELSE LET child == ScanDirectory(Head(entries), Join(rootPath, Head(entries).Name))
         IN (IF shouldIgnore(Head(entries).Name) \/ child.err
             THEN <<>> ELSE child.node)
            \o scanEntries(Tail(entries), rootPath)

\* ScanDirectory that gives up on the first entry it cannot scan
ScanDirectory_abortsOnError(entry, rootPath) ==
    IF StatFails(entry) THEN [node |-> <<>>, err |-> TRUE]
    ELSE IF ~EntryIsDir(entry)
    THEN [node |-> <<FileNode(entry.Name, rootPath, FALSE, <<>>)>>, err |-> FALSE]
    ELSE IF entry.Kind = "locked"
    THEN [node |-> <<FileNode(entry.Name, rootPath, TRUE, <<>>)>>, err |-> TRUE]
    ELSE IF \E i \in 1..Len(entry.Children) :
              /\ ~shouldIgnore(entry.Children[i].Name)
              /\ ScanDirectory(entry.Children[i], Join(rootPath, entry.Children[i].Name)).err
    THEN [node |-> <<FileNode(entry.Name, rootPath, TRUE, <<>>)>>, err |-> TRUE]
    ELSE [node |-> <<FileNode(entry.Name, rootPath, TRUE,
                              scanEntries(entry.Children, rootPath))>>,
          err |-> FALSE]

\* ScanDirectory: the node, if one is returned, and whether an error is
ScanDirectory(entry, rootPath) ==
    IF StatFails(entry) THEN [node |-> <<>>, err |-> TRUE]
    ELSE IF ~EntryIsDir(entry)
    THEN [node |-> <<FileNode(entry.Name, rootPath, FALSE, <<>>)>>, err |-> FALSE]
    ELSE IF entry.Kind = "locked"
    THEN [node |-> <<FileNode(entry.Name, rootPath, TRUE, <<>>)>>, err |-> TRUE]
    ELSE [node |-> <<FileNode(entry.Name, rootPath, TRUE,
                              scanEntries(entry.Children, rootPath))>>,
          err |-> FALSE]

\* ------------------------------------------------------------------------
\* prompt: the file tree text (internal/prompt/builder.go)

\* strings.Count(relPath, "/")
Count(str, c) == Cardinality({i \in 1..Len(str) : str[i] = c})

\* strings.Repeat("  ", depth)
RECURSIVE Repeat(_)
Repeat(depth) == IF depth <= 0 THEN <<>> ELSE <<" ", " ">> \o Repeat(depth - 1)

\* the line printed for an entry: indent, "- ", name, "/" for a directory
TreeLine(relPath, name, isDir) ==
    Repeat(Count(relPath, "/")) \o <<"-", " ">> \o name
        \o (IF isDir THEN <<"/">> ELSE <<>>)

\* the ignore rule of a walk: the matcher's, or the scanner's by name
walkIgnores(rule, relPath, entry) ==
    IF rule.legacy THEN shouldIgnore(entry.Name)
    ELSE ShouldIgnore(rule.matcher, relPath, EntryIsDir(entry))

RECURSIVE walkEntries(_, _, _)

\* the walk below an entry that is listed
walkBelow(entry, relPath, rule) ==
    IF entry.Kind = "dir" THEN walkEntries(entry.Children, relPath, rule)
    ELSE [text |-> <<>>, err |-> FALSE]

\* the walk over the rest of a directory after one of its entries
walkOn(done, rest, dir, rule) ==
    IF done.err THEN done
    ELSE [text |-> done.text \o walkEntries(rest, dir, rule).text,
          err |-> walkEntries(rest, dir, rule).err]

\* walkEntry that leaves out an ignored directory but still walks below it
walkEntry_noSkipDir(entry, relPath, rule) ==
    IF entry.Kind = "locked" THEN [text |-> <<>>, err |-> TRUE]
    ELSE IF walkIgnores(rule, relPath, entry) THEN walkBelow(entry, relPath, rule)
    ELSE [text |-> <<TreeLine(relPath, entry.Name, EntryIsDir(entry))>>
                       \o walkBelow(entry, relPath, rule).text,
          err |-> walkBelow(entry, relPath, rule).err]

\* the lines of one entry and of what the walk visits below it
walkEntry(entry, relPath, rule) ==
    IF entry.Kind = "locked" THEN [text |-> <<>>, err |-> TRUE]
    ELSE IF walkIgnores(rule, relPath, entry) THEN [text |-> <<>>, err |-> FALSE]
    ELSE [text |-> <<TreeLine(relPath, entry.Name, EntryIsDir(entry))>>
                       \o walkBelow(entry, relPath, rule).text,
          err |-> walkBelow(entry, relPath, rule).err]

\* filepath.Walk with the callback of the generators: the lines written for
\* the entries of a directory, in name order, and whether the walk failed
walkEntries(entries, dir, rule) ==
    IF entries = <<>> THEN [text |-> <<>>, err |-> FALSE]
    ELSE walkOn(walkEntry(Head(entries), Join(dir, Head(entries).Name), rule),
                Tail(entries), dir, rule)

\* a failed walk returns no text
walked(w) == IF w.err THEN [text |-> <<>>, err |-> TRUE] ELSE w

\* generateFileTreeWithGitignore
generateFileTreeWithGitignore(d) ==
    walked(walkEntries(d.root.Children, Dot,
                       [legacy |-> FALSE, matcher |-> NewGitignoreMatcher(d.gitignore)]))

\* generateFileTreeLegacy
generateFileTreeLegacy(d) ==
    walked(walkEntries(d.root.Children, Dot, [legacy |-> TRUE]))

\* the result of the first generator unless it failed
orElse(first, second) == IF first.err THEN second ELSE first

\* generateFileTree
generateFileTree(d) ==
    orElse(generateFileTreeWithGitignore(d), generateFileTreeLegacy(d))

\* ------------------------------------------------------------------------
\* SettingsManager (internal/config/settings.go, keys.go).  Of UserSettings
\* the model keeps the bindings that are validated and the notification TTL.

\* the binding strings used here (all in lower case, as strings.ToLower
\* leaves them)
KeyAltM == <<"a", "l", "t", "+", "m">>
KeyHyperM == <<"h", "y", "p", "e", "r", "+", "m">>
KeyEsc == <<"e", "s", "c">>
KeyP == <<"p">>
KeyX == <<"x">>
KeyXY == <<"x", "y">>

DefaultNotificationTTL == 3

\* strings.Split(binding, "+")
RECURSIVE Split(_)
Split(str) ==
    IF \E i \in 1..Len(str) : str[i] = "+"
    THEN LET i == CHOOSE k \in 1..Len(str) :
                     str[k] = "+" /\ \A j \in 1..(k - 1) : str[j] # "+"
         IN <<SubSeq(str, 1, i - 1)>> \o Split(SubSeq(str, i + 1, Len(str)))
    ELSE <<str>>

Modifiers == {<<"c", "t", "r", "l">>, <<"c", "o", "n", "t", "r", "o", "l">>, <<"a", "l", "t">>, <<"s", "h", "i", "f", "t">>}

\* ParseKeyBinding returns an error
parseFails(parts) ==
    \/ \E i \in 1..(Len(parts) - 1) : TrimSpace(parts[i]) \notin Modifiers
    \/ TrimSpace(parts[Len(parts)]) = <<>>

ParseKeyBindingFails(binding) == binding = <<>> \/ parseFails(Split(binding))

\* validateKeyBinding returns an error
validateKeyBindingFails(binding) == binding = <<>> \/ ParseKeyBindingFails(binding)

UserSettings(activation, exit, personaMenu, legacyActivation, legacyPersona, ttl) ==
    [Bindings |-> [MenuMode |-> [Activation |-> activation, Exit |-> exit,
                                 PersonaMenu |-> personaMenu],
                   MenuActivation |-> legacyActivation,
                   PersonaMenu |-> legacyPersona],
     UI |-> [NotificationTTL |-> ttl]]

getDefaultSettings ==
    UserSettings(KeyAltM, KeyEsc, KeyP, <<>>, <<>>, DefaultNotificationTTL)

\* a value unless it is the zero value
orDefault(value, zero, default) == IF value = zero THEN default ELSE value

\* applyDefaults: the defaults for the values the file leaves out
applyDefaults(st) ==
    UserSettings(
        orDefault(st.Bindings.MenuMode.Activation, <<>>,
                  getDefaultSettings.Bindings.MenuMode.Activation),
        orDefault(st.Bindings.MenuMode.Exit, <<>>, getDefaultSettings.Bindings.MenuMode.Exit),
        orDefault(st.Bindings.MenuMode.PersonaMenu, <<>>,
                  getDefaultSettings.Bindings.MenuMode.PersonaMenu),
        st.Bindings.MenuActivation,
        st.Bindings.PersonaMenu,
        IF st.UI.NotificationTTL <= 0
        THEN getDefaultSettings.UI.NotificationTTL ELSE st.UI.NotificationTTL)

\* validateLegacyBindings: the settings with the legacy defaults filled in
legacyFilled(st) ==
    [st EXCEPT !.Bindings.MenuActivation = orDefault(@, <<>>, KeyX),
               !.Bindings.PersonaMenu = orDefault(@, <<>>, KeyP)]

\* validateLegacyBindings: the error, "" for none
validateLegacyBindings(st) ==
    IF Len(legacyFilled(st).Bindings.MenuActivation) # 1
    THEN "bindings.menu_activation must be a single character"
    ELSE IF Len(legacyFilled(st).Bindings.PersonaMenu) # 1
    THEN "bindings.persona_menu must be a single character"
    ELSE ""

\* validateModeBindings: the error, "" for none
validateModeBindings(st) ==
    IF st.Bindings.MenuMode.Activation = <<>>
    THEN "bindings.menu_mode.activation cannot be empty"
    ELSE IF validateKeyBindingFails(st.Bindings.MenuMode.Activation)
    THEN "invalid bindings.menu_mode.activation"
    ELSE IF st.Bindings.MenuMode.Exit # <<>>
            /\ validateKeyBindingFails(st.Bindings.MenuMode.Exit)
    THEN "invalid bindings.menu_mode.exit"
    ELSE IF st.Bindings.MenuMode.PersonaMenu # <<>>
            /\ validateKeyBindingFails(st.Bindings.MenuMode.PersonaMenu)
    THEN "invalid bindings.menu_mode.persona_menu"
    ELSE ""

\* the settings use the legacy bindings
usesLegacy(st) == st.Bindings.MenuActivation # <<>> \/ st.Bindings.PersonaMenu # <<>>

\* validate: the error, "" for none
validate(st) ==
    IF usesLegacy(st) THEN validateLegacyBindings(st) ELSE validateModeBindings(st)

\* the settings as validate leaves them
validated(st) == IF usesLegacy(st) THEN legacyFilled(st) ELSE st

\* the settings file: absent, unreadable, no TOML ("garbled"), or the
\* settings it unmarshals to
NoFile == [kind |-> "absent"]
UnreadableFile == [kind |-> "unreadable"]
GarbledFile == [kind |-> "garbled"]
TomlFile(st) == [kind |-> "toml", settings |-> st]

\* the end of loadUnsafe with the settings installed before they are validated
installed_beforeValidate(old, st) ==
    [settings |-> validated(st), err |-> validate(st)]

\* the end of loadUnsafe: the settings are installed unless validation fails
installed(old, st) ==
    IF validate(st) # "" THEN [settings |-> old, err |-> validate(st)]
    ELSE [settings |-> validated(st), err |-> ""]

\* loadUnsafe: m.settings afterwards and the error, "" for none
loadUnsafe(old, file) ==
    CASE file.kind = "absent" -> [settings |-> getDefaultSettings, err |-> ""]
      [] file.kind = "unreadable" -> [settings |-> old, err |-> "failed to read config file"]
      [] file.kind = "garbled" -> [settings |-> old, err |-> "invalid TOML format"]
      [] OTHER -> installed(old, applyDefaults(file.settings))

\* the TOML files: what they set menu_mode.activation, the legacy
\* menu_activation and the notification TTL to
TomlFiles ==
    {TomlFile(UserSettings(activation, <<>>, <<>>, legacy, <<>>, ttl)) :
        activation \in {<<>>, KeyAltM, KeyHyperM},
        legacy \in {<<>>, KeyX, KeyXY},
        ttl \in {0, 5}}

ConfigFiles == {NoFile, UnreadableFile, GarbledFile} \cup TomlFiles

MaxWatchers == 2   \* watchers created in one run
MaxEvents == 1     \* file events waiting in a watcher's channel

\* a watcher as fsnotify.NewWatcher returns it
NewWatcher == [closed |-> FALSE, events |-> 0]

\* a goroutine entering watchLoop.  pc: "select" before the select statement
\* reads m.watcher, "waiting" in the select, "done" after return, "panicked";
\* ev, er: the watchers whose Events and Errors channels it waits on;
\* may: the values of m.watcher its next read may return, oldest first (the
\* read takes no lock, so it may miss the latest writes)
NewLoop(w) == [pc |-> "select", ev |-> 0, er |-> 0, may |-> <<w>>]

Running(loop) == loop.pc \in {"select", "waiting"}

\* m.watcher is assigned: the running loops may read the new value
assigned(loops, w) ==
    [g \in DOMAIN loops |->
        IF Running(loops[g]) THEN [loops[g] EXCEPT !.may = Append(@, w)] ELSE loops[g]]

\* a file event reaches every open watcher
notifyWatchers(watchers) ==
    [w \in DOMAIN watchers |->
        IF ~watchers[w].closed /\ watchers[w].events < MaxEvents
        THEN [watchers[w] EXCEPT !.events = @ + 1] ELSE watchers[w]]

\* the select statement with m.watcher read as ev for Events, then as er for
\* Errors: a nil watcher is a nil pointer dereference
selected(loop, i, j) ==
    IF loop.may[i] = 0 \/ loop.may[j] = 0
    THEN [loop EXCEPT !.pc = "panicked"]
    ELSE [loop EXCEPT !.pc = "waiting", !.ev = loop.may[i], !.er = loop.may[j],
                      !.may = SubSeq(loop.may, j, Len(loop.may))]

\* reloadAndNotify: the callback runs when the reload succeeds and changes
\* the settings
notifies(m, loaded) == m.onChange /\ loaded.err = "" /\ loaded.settings # m.settings

\* GetSettings: a copy of the snapshot, taken under the read lock
GetSettings(m) == m.settings

\* NewSettingsManager on a settings file that loads: no watcher, no callback
NewSettingsManager(file) ==
    [settings |-> loadUnsafe(getDefaultSettings, file).settings,
     watcher |-> 0, onChange |-> FALSE]

\* nothing is watched and no call was made
SystemWith(file) ==
    [file |-> file, err |-> "", call |-> "none", watchers |-> <<>>, loops |-> <<>>,
     notified |-> FALSE]

\* ------------------------------------------------------------------------
\* FileTreeModel (internal/tui/filetree.go)

HelpTextLen == 91      \* length of the help line of the file tree header
HeaderFixedLines == 4  \* title, blank, blank, blank of the header block

\* calculateHeaderContent: the line count of the header wrapped to the width
calculateHeaderContent(m) ==
    LET w == max(1, m.width)
    IN HeaderFixedLines + ((HelpTextLen + w - 1) \div w)

\* refreshItems: the children of the root flattened, selection flags patched on
\* refreshItems that adds the rows to those of the call before
refreshItems_appends(m) ==
    IF m.rootNode = <<>> THEN [m EXCEPT !.items = <<>>]
    ELSE LET flat == FlattenChildren(m.rootNode[1].Children, 0, m.expanded)
         IN [m EXCEPT !.items = m.items \o
                [i \in 1..Len(flat) |->
                    [flat[i] EXCEPT !.Selected = Lookup(m.selected, flat[i].Path)]]]

refreshItems(m) ==
    IF m.rootNode = <<>> THEN [m EXCEPT !.items = <<>>]
    ELSE LET flat == FlattenChildren(m.rootNode[1].Children, 0, m.expanded)
         IN [m EXCEPT !.items =
                [i \in 1..Len(flat) |->
                    [flat[i] EXCEPT !.Selected = Lookup(m.selected, flat[i].Path)]]]

\* ensureVisible, the clamp of the cursor to the items
clampCursor(c, n) == IF c < 0 THEN 0 ELSE IF c >= n THEN n - 1 ELSE c

\* scrollInto that always puts the cursor on the first line of the window
scrollInto_toTop(c, top, h) == c

\* scrollInto that scrolls up to the cursor but never down
scrollInto_upOnly(c, top, h) == IF c < top THEN c ELSE top

\* ensureVisible, the offset that brings line c into a window of h lines at top
scrollInto(c, top, h) ==
    IF c < top THEN c ELSE IF c > top + h - 1 THEN c - h + 1 ELSE top

\* ensureVisible, the clamp of the offset to 0..max(0, n - h)
clampOffset(y, n, h) ==
    IF y < 0 THEN 0 ELSE IF y > max(0, n - h) THEN max(0, n - h) ELSE y

\* ensureVisible, the final check that the viewport does not run past the end
fitOffset(y, n, h) == IF y > 0 /\ y + h > n THEN max(0, n - h) ELSE y

\* ensureVisible: clamp the cursor, scroll the viewport so that it shows it
ensureVisible(m) ==
    IF m.viewport.Height <= 0 \/ Len(m.items) = 0 THEN m
    ELSE [m EXCEPT
            !.cursor = clampCursor(m.cursor, Len(m.items)),
            !.viewport.YOffset =
                fitOffset(
                    clampOffset(
                        scrollInto(clampCursor(m.cursor, Len(m.items)),
                                   m.viewport.YOffset, m.viewport.Height),
                        Len(m.items), m.viewport.Height),
                    Len(m.items), m.viewport.Height)]

\* ensureViewportSizedWithHeader
ensureViewportSizedWithHeader(m, headerHeight) ==
    IF m.width <= 0 \/ m.height <= 0 THEN m
    ELSE LET vp0 == m.height - headerHeight
             vpHeight == IF vp0 < 1 THEN 1 ELSE vp0
         IN IF m.viewport.Width # m.width \/ m.viewport.Height # vpHeight
            THEN [m EXCEPT !.viewport.Width = m.width,
                           !.viewport.Height = vpHeight,
                           \* viewport.New replaces a viewport never sized before
                           !.viewport.YOffset =
                               IF m.viewport.Width = 0 /\ m.viewport.Height = 0
                               THEN 0 ELSE m.viewport.YOffset]
            ELSE m

\* FileTreeModel.SetSize
FileTreeSetSize(m, width, height) ==
    LET m1 == [m EXCEPT !.width = width, !.height = height]
        m2 == ensureViewportSizedWithHeader(m1, calculateHeaderContent(m1))
    IN ensureVisible(m2)

NewFileTreeModel(initialSelection) ==
    [rootNode |-> <<>>, items |-> <<>>, cursor |-> 0,
     expanded |-> EmptyMap,
     selected |-> [p \in initialSelection |-> TRUE],
     viewport |-> [Width |-> 0, Height |-> 0, YOffset |-> 0],
     width |-> 0, height |-> 0]

\* FileTreeModel.Init: scan the target directory and flatten it
FileTreeInit(m, scanned) == refreshItems([m EXCEPT !.rootNode = <<scanned>>])

\* Messages and keys the panels exchange with the App
KeyMsg(k) == [type |-> "KeyMsg", key |-> k]
MouseMsg(b, x, y) == [type |-> "MouseMsg", button |-> b, X |-> x, Y |-> y]
WindowSizeMsg(w, h) == [type |-> "WindowSizeMsg", Width |-> w, Height |-> h]
\* FileSelectionMsg carries the panel's selection map itself (a Go map is a
\* reference), so the receiver reads the map as it is when the message arrives
FileSelectionMsg == [type |-> "FileSelectionMsg"]
FileDeselectionMsg(p) == [type |-> "FileDeselectionMsg", FilePath |-> p]
ChatInputMsg == [type |-> "ChatInputMsg"]
PersonaSelectionMsg(ps) == [type |-> "PersonaSelectionMsg", ActivePersonas |-> ps]

\* a runtime panic: the program ends there
Panic == [type |-> "panic"]

\* the assignment of the enter key that also collapses what lies below
toggleExpanded_collapsesBelow(m, path) ==
    [m EXCEPT !.expanded =
        [q \in DOMAIN m.expanded \cup {path} |->
            IF q = path THEN ~Lookup(m.expanded, path)
            ELSE IF Len(q) > Len(path) /\ SubSeq(q, 1, Len(path)) = path THEN FALSE
            ELSE m.expanded[q]]]

\* the assignment of the enter key that forgets the other directories
toggleExpanded_forgetsOthers(m, path) ==
    [m EXCEPT !.expanded = MapSet(EmptyMap, path, ~Lookup(m.expanded, path))]

\* the assignment of the enter key: m.expanded[path] = !m.expanded[path]
toggleExpanded(m, path) ==
    [m EXCEPT !.expanded = MapSet(m.expanded, path, ~Lookup(m.expanded, path))]

\* the test of the space key that lets every row through
isFile_anyRow(item) == TRUE

\* the test of the space key: the row under the cursor is not a directory
isFile(item) == ~item.IsDir

\* FileTreeModel.Update whose space key selects the file instead of toggling it
FileTreeUpdate_selectOnly(m, msg) ==
    LET n == Len(m.items)
        noop == [m |-> m, cmds |-> <<>>]
        \* m.items[m.cursor] with a negative cursor passes the guard
        \* m.cursor < len(m.items) and is an index out of range
        panics == [m |-> m, cmds |-> <<Panic>>]
        moved(c) == [m |-> ensureVisible([m EXCEPT !.cursor = c]), cmds |-> <<>>]
    IN
    IF msg.type = "KeyMsg" THEN
        CASE msg.key \in {"up", "k"} ->
                moved(IF m.cursor > 0 THEN m.cursor - 1 ELSE m.cursor)
          [] msg.key \in {"down", "j"} ->
                moved(IF m.cursor < n - 1 THEN m.cursor + 1 ELSE m.cursor)
          [] msg.key \in {"pgdown", "ctrl+f"} ->
                IF m.viewport.Height > 0
                THEN moved(IF m.cursor + m.viewport.Height >= n
                           THEN n - 1 ELSE m.cursor + m.viewport.Height)
                ELSE noop
          [] msg.key \in {"pgup", "ctrl+b"} ->
                IF m.viewport.Height > 0
                THEN moved(IF m.cursor - m.viewport.Height < 0
                           THEN 0 ELSE m.cursor - m.viewport.Height)
                ELSE noop
          [] msg.key \in {"home", "g"} -> moved(0)
          [] msg.key \in {"end", "G"} -> moved(IF n > 0 THEN n - 1 ELSE m.cursor)
          [] msg.key = "enter" ->
                IF m.cursor < 0 THEN panics
                ELSE IF m.cursor < n /\ m.items[m.cursor + 1].IsDir
                THEN LET path == m.items[m.cursor + 1].Path
                         m1 == toggleExpanded(m, path)
                     IN [m |-> ensureVisible(refreshItems(m1)),
                         cmds |-> <<FileSelectionMsg>>]
                ELSE noop
          [] msg.key = " " ->
                IF m.cursor < 0 THEN panics
                ELSE IF m.cursor < n /\ isFile(m.items[m.cursor + 1])
                THEN LET path == m.items[m.cursor + 1].Path
                         m1 == [m EXCEPT !.selected =
                                   MapSet(m.selected, path, TRUE)]
                     IN [m |-> ensureVisible(refreshItems(m1)),
                         cmds |-> <<FileSelectionMsg>>]
                ELSE noop
          [] OTHER -> noop
    \* every other message goes to the viewport, which a button click leaves alone
    ELSE noop

\* FileTreeModel.Update: returns the panel and the commands it issues
FileTreeUpdate(m, msg) ==
    LET n == Len(m.items)
        noop == [m |-> m, cmds |-> <<>>]
        \* m.items[m.cursor] with a negative cursor passes the guard
        \* m.cursor < len(m.items) and is an index out of range
        panics == [m |-> m, cmds |-> <<Panic>>]
        moved(c) == [m |-> ensureVisible([m EXCEPT !.cursor = c]), cmds |-> <<>>]
    IN
    IF msg.type = "KeyMsg" THEN
        CASE msg.key \in {"up", "k"} ->
                moved(IF m.cursor > 0 THEN m.cursor - 1 ELSE m.cursor)
          [] msg.key \in {"down", "j"} ->
                moved(IF m.cursor < n - 1 THEN m.cursor + 1 ELSE m.cursor)
          [] msg.key \in {"pgdown", "ctrl+f"} ->
                IF m.viewport.Height > 0
                THEN moved(IF m.cursor + m.viewport.Height >= n
                           THEN n - 1 ELSE m.cursor + m.viewport.Height)
                ELSE noop
          [] msg.key \in {"pgup", "ctrl+b"} ->
                IF m.viewport.Height > 0
                THEN moved(IF m.cursor - m.viewport.Height < 0
                           THEN 0 ELSE m.cursor - m.viewport.Height)
                ELSE noop
          [] msg.key \in {"home", "g"} -> moved(0)
          [] msg.key \in {"end", "G"} -> moved(IF n > 0 THEN n - 1 ELSE m.cursor)
          [] msg.key = "enter" ->
                IF m.cursor < 0 THEN panics
                ELSE IF m.cursor < n /\ m.items[m.cursor + 1].IsDir
                THEN LET path == m.items[m.cursor + 1].Path
                         m1 == toggleExpanded(m, path)
                     IN [m |-> ensureVisible(refreshItems(m1)),
                         cmds |-> <<FileSelectionMsg>>]
                ELSE noop
          [] msg.key = " " ->
                IF m.cursor < 0 THEN panics
                ELSE IF m.cursor < n /\ isFile(m.items[m.cursor + 1])
                THEN LET path == m.items[m.cursor + 1].Path
                         m1 == [m EXCEPT !.selected =
                                   MapSet(m.selected, path, ~Lookup(m.selected, path))]
                     IN [m |-> ensureVisible(refreshItems(m1)),
                         cmds |-> <<FileSelectionMsg>>]
                ELSE noop
          [] OTHER -> noop
    \* every other message goes to the viewport, which a button click leaves alone
    ELSE noop

\* ------------------------------------------------------------------------
\* SelectedFilesModel (internal/tui/selected.go)

RemovalKeys == {"delete"}   \* the configured removal keys of the panel

NewSelectedFilesModel == [files |-> <<>>, cursor |-> 0]

RemoveAt(s, i) == [j \in 1..(Len(s) - 1) |-> IF j < i THEN s[j] ELSE s[j + 1]]

\* removeFile that moves the cursor but keeps the list
removeFile_keepsList(m, index) ==
    IF index < 0 \/ index >= Len(m.files) THEN m
    ELSE [m EXCEPT !.cursor = IF m.cursor > 0 THEN m.cursor - 1 ELSE 0]

\* removeFile(index), index counted from 0
removeFile(m, index) ==
    IF index < 0 \/ index >= Len(m.files) THEN m
    ELSE LET fs == RemoveAt(m.files, index + 1)
             c1 == IF m.cursor >= Len(fs) /\ Len(fs) > 0 THEN Len(fs) - 1 ELSE m.cursor
             c2 == IF Len(fs) = 0 THEN 0 ELSE c1
         IN [m EXCEPT !.files = fs, !.cursor = c2]

\* AddFile: appends unless the path is already listed
AddFile(m, name, path) ==
    IF \E i \in 1..Len(m.files) : m.files[i].Path = path THEN m
    ELSE [m EXCEPT !.files = Append(m.files, [Name |-> name, Path |-> path])]

\* SelectedFilesModel.Update
SelectedFilesUpdate(m, msg) ==
    LET noop == [m |-> m, cmds |-> <<>>] IN
    IF msg.type = "KeyMsg" THEN
        CASE msg.key \in {"up", "k"} ->
                [m |-> [m EXCEPT !.cursor = IF m.cursor > 0 THEN m.cursor - 1 ELSE m.cursor],
                 cmds |-> <<>>]
          [] msg.key \in {"down", "j"} ->
                [m |-> [m EXCEPT !.cursor =
                          IF m.cursor < Len(m.files) - 1 THEN m.cursor + 1 ELSE m.cursor],
                 cmds |-> <<>>]
          [] OTHER ->
                IF msg.key \in RemovalKeys /\ Len(m.files) > 0 /\ m.cursor < Len(m.files)
                THEN [m |-> removeFile(m, m.cursor),
                      cmds |-> <<FileDeselectionMsg(m.files[m.cursor + 1].Path)>>]
                ELSE noop
    ELSE noop

\* ------------------------------------------------------------------------
\* ChatModel (internal/tui/chat.go): the textarea holds the typed text

MaxChatLen == 1   \* characters the model lets the user type

PrintableKeys == {"a", "j", "k", "g", "G", "x", "p", " "}

NewChatModel(text) == [text |-> text]

\* ChatModel.Update hands every message to the textarea
ChatUpdate(m, msg) ==
    IF msg.type = "KeyMsg" /\ msg.key \in PrintableKeys
    THEN [m |-> [m EXCEPT !.text = Append(m.text, msg.key)], cmds |-> <<>>]
    ELSE [m |-> m, cmds |-> <<>>]

\* ------------------------------------------------------------------------
\* PromptDialogModel (internal/tui/prompt_dialog.go); the scroll position of
\* its viewport is not part of the model

NewPromptDialogModel == [visible |-> FALSE, content |-> "", width |-> 0, height |-> 0]

PromptDialogShow(m, content) == [m EXCEPT !.content = content, !.visible = TRUE]

PromptDialogHide(m) == [m EXCEPT !.visible = FALSE]

PromptDialogSetSize(m, w, h) == [m EXCEPT !.width = w, !.height = h]

PromptDialogUpdate(m, msg) ==
    IF ~m.visible THEN m
    ELSE IF msg.type = "KeyMsg" /\ msg.key \in {"ctrl+c", "q", "enter", "esc"}
    THEN PromptDialogHide(m)
    ELSE m

\* ------------------------------------------------------------------------
\* PersonaDialogModel (persona_dialog.go): a list dialog drawn by a prompt
\* dialog of its own

AvailablePersonas == <<"default", "architect">>   \* what DiscoverPersonas found

NewPersonaDialogModel ==
    [promptDialog |-> NewPromptDialogModel, selectedPersonas |-> EmptyMap, cursor |-> 0]

SetActivePersonas(m, personas) ==
    [m EXCEPT !.selectedPersonas =
        [x \in {personas[i] : i \in 1..Len(personas)} |-> TRUE]]

PersonaDialogShow(m) ==
    [m EXCEPT !.promptDialog = PromptDialogShow(m.promptDialog, "personas")]

PersonaDialogHide(m) == [m EXCEPT !.promptDialog = PromptDialogHide(m.promptDialog)]

\* IsVisible that never reports the persona dialog as visible
PersonaDialogIsVisible_never(m) == FALSE

PersonaDialogIsVisible(m) == m.promptDialog.visible

PersonaDialogSetSize(m, w, h) ==
    [m EXCEPT !.promptDialog = PromptDialogSetSize(m.promptDialog, w, h)]

\* getActivePersonasList: the selected personas in list order, "default" if none
getActivePersonasList(m) ==
    LET active == SelectSeq(AvailablePersonas, LAMBDA x : Lookup(m.selectedPersonas, x))
    IN IF active = <<>> THEN <<"default">> ELSE active

PersonaDialogUpdate(m, msg) ==
    LET n == Len(AvailablePersonas)
        noop == [m |-> m, cmds |-> <<>>] IN
    IF ~PersonaDialogIsVisible(m) THEN noop
    ELSE IF msg.type = "KeyMsg" THEN
        CASE msg.key \in {"up", "k"} ->
                [m |-> [m EXCEPT !.cursor = IF m.cursor > 0 THEN m.cursor - 1 ELSE n - 1],
                 cmds |-> <<>>]
          [] msg.key \in {"down", "j"} ->
                [m |-> [m EXCEPT !.cursor = IF m.cursor < n - 1 THEN m.cursor + 1 ELSE 0],
                 cmds |-> <<>>]
          [] msg.key = " " ->
                IF m.cursor >= 0 /\ m.cursor < n
                THEN LET persona == AvailablePersonas[m.cursor + 1]
                     IN [m |-> [m EXCEPT !.selectedPersonas =
                                   MapSet(m.selectedPersonas, persona,
                                          ~Lookup(m.selectedPersonas, persona))],
                         cmds |-> <<>>]
                ELSE noop
          [] msg.key = "enter" ->
                [m |-> PersonaDialogHide(m),
                 cmds |-> <<PersonaSelectionMsg(getActivePersonasList(m))>>]
          [] msg.key = "esc" -> [m |-> PersonaDialogHide(m), cmds |-> <<>>]
          [] OTHER ->
                [m |-> [m EXCEPT !.promptDialog = PromptDialogUpdate(m.promptDialog, msg)],
                 cmds |-> <<>>]
    ELSE noop

\* ------------------------------------------------------------------------
\* Settings (internal/config/settings.go): the bindings the App asks for

MenuActivationKey == "x"       \* legacy bindings.menu_activation
MenuModeActivation == "alt+m"  \* bindings.menu_mode.activation
PersonaMenuKey == "p"          \* persona menu binding, the same in both modes
DebugToggleKey == "f11"        \* debug.toggle_key

IsLegacyMode(a) == a.settingsManager.legacy

\* ------------------------------------------------------------------------
\* LayoutConfig: the panel geometry shared by mainLayout and handleMouseClick

HeaderHeight == 3
FooterHeight == 3
TopHeightPercent == 66

AvailableHeight(totalHeight) == totalHeight - HeaderHeight - FooterHeight
TopPanelHeight(totalHeight) == TruncPercent(AvailableHeight(totalHeight), TopHeightPercent)
BottomPanelHeight(totalHeight) == AvailableHeight(totalHeight) - TopPanelHeight(totalHeight)
LeftPanelWidth(totalWidth) == Half(totalWidth)
RightPanelWidth(totalWidth) == totalWidth - LeftPanelWidth(totalWidth)

\* ------------------------------------------------------------------------
\* App (internal/tui/app.go)

\* State command generators: the message each command delivers when it runs
setFocus(panel) == FocusChangeMsg(panel)
setMenuMode(enabled) == MenuModeChangeMsg(enabled)
enterMenuMode == setMenuMode(TRUE)
exitMenuMode == setMenuMode(FALSE)
updateLayout(w, h) == LayoutChangeMsg(w, h)
\* toggleDebugMode reads a.debugMode when the command runs, not when it is made
toggleDebugMode == [type |-> "toggleDebugMode"]
\* createAlert: a command of the notification library
createAlert(alertType) == AlertMsg(alertType)
Quit == [type |-> "QuitMsg"]

\* nextPanel: the FocusChange command for the panel after the focused one
nextPanel(a) ==
    setFocus(CASE a.focused = FileTreePanel -> SelectedFilesPanel
               [] a.focused = SelectedFilesPanel -> ChatPanel
               [] a.focused = ChatPanel -> FooterMenuPanel
               [] a.focused = FooterMenuPanel -> FileTreePanel
               [] OTHER -> FileTreePanel)

\* prevPanel: the FocusChange command for the panel before the focused one
prevPanel(a) ==
    setFocus(CASE a.focused = FileTreePanel -> FooterMenuPanel
               [] a.focused = SelectedFilesPanel -> FileTreePanel
               [] a.focused = ChatPanel -> SelectedFilesPanel
               [] a.focused = FooterMenuPanel -> ChatPanel
               [] OTHER -> FileTreePanel)

\* handleMouseClick: the commands a left click at (x, y) issues
handleMouseClick(a, x, y) ==
    LET topHeight == TopPanelHeight(a.height)
        bottomHeight == BottomPanelHeight(a.height)
        leftWidth == LeftPanelWidth(a.width)
    IN IF y < HeaderHeight THEN <<>>
       ELSE IF y < HeaderHeight + topHeight
            THEN IF x < leftWidth THEN <<setFocus(FileTreePanel)>>
                 ELSE <<setFocus(SelectedFilesPanel)>>
       ELSE IF y < HeaderHeight + topHeight + bottomHeight
            THEN <<setFocus(ChatPanel)>>
       ELSE IF y < HeaderHeight + topHeight + bottomHeight + FooterHeight
            THEN <<setFocus(FooterMenuPanel)>>
       ELSE <<>>

\* mainLayout: the panel drawn at (x, y): the header, the row of file tree and
\* chat, the selected-files row, the footer; -1 where nothing focusable is drawn
mainLayout(a, x, y) ==
    LET topHeight == TopPanelHeight(a.height)
        bottomHeight == BottomPanelHeight(a.height)
        leftWidth == LeftPanelWidth(a.width)
    IN IF y < 0 \/ x < 0 \/ x >= a.width THEN -1
       ELSE IF y < HeaderHeight THEN -1
       ELSE IF y < HeaderHeight + topHeight
            THEN IF x < leftWidth THEN FileTreePanel ELSE ChatPanel
       ELSE IF y < HeaderHeight + topHeight + bottomHeight THEN SelectedFilesPanel
       ELSE IF y < HeaderHeight + topHeight + bottomHeight + FooterHeight
            THEN FooterMenuPanel
       ELSE -1

\* isValidPanel accepting one value past the last panel
isValidPanel_offByOne(panel) == panel >= FileTreePanel /\ panel <= FooterMenuPanel + 1

isValidPanel(panel) == panel >= FileTreePanel /\ panel <= FooterMenuPanel

\* the FocusChangeMsg case reporting an invalid panel without returning
handleFocusChange_noReturn(a, msg) ==
    LET alert == IF ~isValidPanel(msg.Panel) /\ a.debugMode
                 THEN <<createAlert("error")>> ELSE <<>>
    IN IF a.focused # msg.Panel
       THEN [a |-> [a EXCEPT !.focused = msg.Panel,
                             !.menuBindingMode =
                                 IF IsLegacyMode(a)
                                 THEN (msg.Panel = FooterMenuPanel)
                                 ELSE a.menuBindingMode],
             cmds |-> alert]
       ELSE [a |-> a, cmds |-> alert]

\* handleStateChange, case FocusChangeMsg
handleFocusChange(a, msg) ==
    IF ~isValidPanel(msg.Panel)
    THEN [a |-> a, cmds |-> IF a.debugMode THEN <<createAlert("error")>> ELSE <<>>]
    ELSE IF a.focused # msg.Panel
    THEN [a |-> [a EXCEPT !.focused = msg.Panel,
                          !.menuBindingMode =
                              IF IsLegacyMode(a) THEN (msg.Panel = FooterMenuPanel)
                              ELSE a.menuBindingMode],
          cmds |-> <<>>]
    ELSE [a |-> a, cmds |-> <<>>]

\* the MenuModeChangeMsg case without the dependent focus update
handleMenuModeChange_keepsFocus(a, msg) ==
    IF a.menuBindingMode # msg.Enabled
    THEN [a |-> [a EXCEPT !.menuBindingMode = msg.Enabled], cmds |-> <<>>]
    ELSE [a |-> a, cmds |-> <<>>]

\* handleStateChange, case MenuModeChangeMsg
handleMenuModeChange(a, msg) ==
    IF a.menuBindingMode # msg.Enabled
    THEN [a |-> [a EXCEPT !.menuBindingMode = msg.Enabled,
                          !.focused = IF msg.Enabled THEN FooterMenuPanel
                                      ELSE a.focused],
          cmds |-> <<>>]
    ELSE [a |-> a, cmds |-> <<>>]

\* the DebugModeChangeMsg case without the notification
handleDebugModeChange_silent(a, msg) ==
    IF a.debugMode # msg.Enabled
    THEN [a |-> [a EXCEPT !.debugMode = msg.Enabled], cmds |-> <<>>]
    ELSE [a |-> a, cmds |-> <<>>]

\* handleStateChange, case DebugModeChangeMsg
handleDebugModeChange(a, msg) ==
    IF a.debugMode # msg.Enabled
    THEN [a |-> [a EXCEPT !.debugMode = msg.Enabled], cmds |-> <<createAlert("info")>>]
    ELSE [a |-> a, cmds |-> <<>>]

\* the LayoutChangeMsg case rejecting only a dimension that is exactly zero
handleLayoutChange_zeroOnly(a, msg) ==
    IF msg.Width = 0 \/ msg.Height = 0
    THEN [a |-> a, cmds |-> IF a.debugMode THEN <<createAlert("error")>> ELSE <<>>]
    ELSE IF a.width # msg.Width \/ a.height # msg.Height
    THEN [a |-> [a EXCEPT !.width = msg.Width, !.height = msg.Height],
          cmds |-> <<>>]
    ELSE [a |-> a, cmds |-> <<>>]

\* handleStateChange, case LayoutChangeMsg
handleLayoutChange(a, msg) ==
    IF msg.Width <= 0 \/ msg.Height <= 0
    THEN [a |-> a, cmds |-> IF a.debugMode THEN <<createAlert("error")>> ELSE <<>>]
    ELSE IF a.width # msg.Width \/ a.height # msg.Height
    THEN LET topHeight == TruncPercent(msg.Height - 3 - 3, 66)
             contentWidth == Half(msg.Width) - 2 - 2
             contentHeight == topHeight - 2 - 2
         IN [a |-> [a EXCEPT
                      !.width = msg.Width,
                      !.height = msg.Height,
                      !.promptDialog =
                          PromptDialogSetSize(a.promptDialog, msg.Width, msg.Height),
                      !.personaDialog =
                          PersonaDialogSetSize(a.personaDialog, msg.Width, msg.Height),
                      !.fileTree =
                          FileTreeSetSize(a.fileTree, contentWidth, contentHeight)],
             cmds |-> <<>>]
    ELSE [a |-> a, cmds |-> <<>>]

\* handleStateChange: the centralized handler.  Returns the App and the
\* commands of the returned tea.Cmd (tea.Batch of no command is nil).
handleStateChange(a, msg) ==
    CASE msg.type = "FocusChangeMsg" -> handleFocusChange(a, msg)
      [] msg.type = "MenuModeChangeMsg" -> handleMenuModeChange(a, msg)
      [] msg.type = "DebugModeChangeMsg" -> handleDebugModeChange(a, msg)
      [] msg.type = "LayoutChangeMsg" -> handleLayoutChange(a, msg)
      [] OTHER -> [a |-> a, cmds |-> <<>>]

\* validateStateInvariants: TRUE when the Go function returns no error
validateStateInvariants(a) ==
    /\ isValidPanel(a.focused)
    /\ IsLegacyMode(a) => (a.menuBindingMode = (a.focused = FooterMenuPanel))
    /\ ~(a.width < 0 \/ a.height < 0)

\* The order in which Go ranges over a map is unspecified: `order` lists the
\* keys in the order this iteration visits them
RangeSelected(m, order) == SelectSeq(order, LAMBDA p : p \in DOMAIN m /\ m[p])

Orders == {o \in [1..Cardinality(FilePaths) -> FilePaths] :
              \A i, j \in DOMAIN o : i # j => o[i] # o[j]}

RECURSIVE AddFiles(_, _)
AddFiles(m, paths) ==
    IF paths = <<>> THEN m
    ELSE AddFiles(AddFile(m, Base(Head(paths)), Head(paths)), Tail(paths))

\* updateSelectedFilesFromSelection: rebuild the selected-files list from the map
updateSelectedFilesFromSelection(a, selectedFiles, order) ==
    LET m1 == AddFiles([a.selectedFiles EXCEPT !.files = <<>>],
                       RangeSelected(selectedFiles, order))
        c == IF Len(m1.files) = 0 THEN 0
             ELSE IF m1.cursor >= Len(m1.files) THEN Len(m1.files) - 1
             ELSE m1.cursor
    IN [a EXCEPT !.selectedFiles = [m1 EXCEPT !.cursor = c]]

\* handleMenuActivation: the commands that activate menu mode for this key
handleMenuActivation(a, msg) ==
    IF IsLegacyMode(a)
    THEN IF a.focused = FooterMenuPanel /\ msg.key = MenuActivationKey
         THEN <<createAlert("info")>> ELSE <<>>
    ELSE IF msg.key = MenuModeActivation THEN <<enterMenuMode, createAlert("info")>>
    ELSE <<>>

\* a panel's Update result stored back into the App, its command appended
withPanel(a, field, r, cmds0) ==
    [a |-> [a EXCEPT ![field] = r.m], cmds |-> cmds0 \o r.cmds]

\* the chat panel's result; a changed input issues the ChatInputMsg command
withChat(a, r, cmds0) ==
    [a |-> [a EXCEPT !.chat = r.m],
     cmds |-> cmds0 \o (IF a.workspace.ChatInput # r.m.text
                        THEN <<ChatInputMsg>> ELSE <<>>) \o r.cmds]

\* The tail of Update: the message goes to the panel that holds the focus
forwardToFocused(a, msg, cmds0) ==
    CASE a.focused = FileTreePanel ->
            withPanel(a, "fileTree", FileTreeUpdate(a.fileTree, msg), cmds0)
      [] a.focused = SelectedFilesPanel ->
            withPanel(a, "selectedFiles", SelectedFilesUpdate(a.selectedFiles, msg), cmds0)
      [] a.focused = ChatPanel -> withChat(a, ChatUpdate(a.chat, msg), cmds0)
      [] OTHER ->
            \* "invalid focus state": every focus but the three above
            withPanel([a EXCEPT !.focused = FileTreePanel, !.menuBindingMode = FALSE],
                      "fileTree", FileTreeUpdate(a.fileTree, msg), cmds0)

\* the tea.MouseMsg case: the focused panel is handed the mouse event
mouseToFocused(a, msg, click) ==
    CASE a.focused = FileTreePanel ->
            withPanel(a, "fileTree", FileTreeUpdate(a.fileTree, msg), click)
      [] a.focused = SelectedFilesPanel ->
            withPanel(a, "selectedFiles", SelectedFilesUpdate(a.selectedFiles, msg), click)
      [] a.focused = ChatPanel ->
            withPanel(a, "chat", ChatUpdate(a.chat, msg), click)
      [] OTHER -> [a |-> a, cmds |-> click]

\* The tea.MouseMsg case of Update
UpdateMouse(a, msg) ==
    mouseToFocused(a, msg,
        IF msg.button = "left" THEN handleMouseClick(a, msg.X, msg.Y) ELSE <<>>)

\* The tea.KeyMsg case of Update.  env.buildOK: prompt.Build succeeds;
\* env.clipboardOK: clipboard.WriteAll succeeds.
UpdateKey(a, msg, env) ==
    IF msg.key = "ctrl+y"
    THEN [a |-> a,
          cmds |-> IF ~(a.promptDialog.visible /\ a.promptDialog.content # "")
                      /\ ~env.buildOK
                   THEN <<createAlert("error")>>
                   ELSE IF ~env.clipboardOK THEN <<createAlert("error")>>
                   ELSE <<createAlert("info")>>]
    ELSE IF PersonaDialogIsVisible(a.personaDialog)
    THEN withPanel(a, "personaDialog", PersonaDialogUpdate(a.personaDialog, msg), <<>>)
    ELSE IF a.promptDialog.visible
    THEN [a |-> [a EXCEPT !.promptDialog = PromptDialogUpdate(a.promptDialog, msg)],
          cmds |-> <<>>]
    ELSE
    LET \* handleMenuActivation stores its diagnostic when debugging
        a1 == IF a.debugMode THEN [a EXCEPT !.lastDebugInfo = msg.key] ELSE a
        menuCmd == handleMenuActivation(a1, msg)
        \* debug mode: the stored diagnostic is shown and cleared
        a2 == IF a1.debugMode THEN [a1 EXCEPT !.lastDebugInfo = ""] ELSE a1
        dbg == IF a1.debugMode THEN <<createAlert("info")>> ELSE <<>>
    IN
    IF menuCmd # <<>> THEN [a |-> a1, cmds |-> menuCmd]
    ELSE IF msg.key = DebugToggleKey THEN [a |-> a2, cmds |-> <<toggleDebugMode>>]
    ELSE IF msg.key \in {"ctrl+c", "q"} THEN [a |-> a2, cmds |-> <<Quit>>]
    ELSE IF msg.key = "tab" THEN [a |-> a2, cmds |-> <<nextPanel(a2)>>]
    ELSE IF msg.key = "shift+tab" THEN [a |-> a2, cmds |-> <<prevPanel(a2)>>]
    ELSE IF msg.key = "escape" /\ a2.menuBindingMode
    THEN [a |-> a2, cmds |-> <<exitMenuMode>>]
    ELSE IF msg.key = "ctrl+s"
    THEN [a |-> IF env.buildOK
                THEN [a2 EXCEPT !.promptDialog = PromptDialogShow(a2.promptDialog, "prompt")]
                ELSE a2,
          cmds |-> <<>>]
    ELSE IF a2.menuBindingMode /\ msg.key = PersonaMenuKey
    THEN [a |-> [a2 EXCEPT !.personaDialog =
                    PersonaDialogShow(
                        SetActivePersonas(a2.personaDialog, a2.workspace.ActivePersonas))],
          cmds |-> <<>>]
    ELSE forwardToFocused(a2, msg, dbg)

\* ConfigManager.Save: the workspace record is written to the configuration file
Save(a) == [a EXCEPT !.persisted = a.workspace]

\* App.Update after the centralized handler returned no command: the switch
\* on the message type and the focused panel
updateSwitch(b, msg, env) ==
    CASE msg.type = "WindowSizeMsg" ->
            [a |-> b, cmds |-> <<updateLayout(msg.Width, msg.Height)>>]
      [] msg.type = "MouseMsg" -> UpdateMouse(b, msg)
      [] msg.type = "FileSelectionMsg" ->
            [a |-> Save([updateSelectedFilesFromSelection(b, b.fileTree.selected, env.order)
                      EXCEPT !.workspace.SelectedFiles =
                          RangeSelected(b.fileTree.selected, env.order2)]),
             cmds |-> <<>>]
      [] msg.type = "ChatInputMsg" ->
            [a |-> Save([b EXCEPT !.workspace.ChatInput = msg.Content]), cmds |-> <<>>]
      [] msg.type = "FileDeselectionMsg" ->
            [a |-> Save([b EXCEPT
                      !.fileTree = refreshItems(
                          [b.fileTree EXCEPT !.selected =
                              MapSet(b.fileTree.selected, msg.FilePath, FALSE)]),
                      !.workspace.SelectedFiles =
                          SelectSeq(b.workspace.SelectedFiles,
                                    LAMBDA f : f # msg.FilePath)]),
             cmds |-> <<>>]
      [] msg.type = "PersonaSelectionMsg" ->
            [a |-> Save([b EXCEPT !.workspace.ActivePersonas = msg.ActivePersonas]),
             cmds |-> <<>>]
      [] msg.type = "KeyMsg" -> UpdateKey(b, msg, env)
      [] OTHER -> forwardToFocused(b, msg, <<>>)

\* App.Update with the result h of the centralized handler: a command from
\* the handler is returned at once
updateAfter(h, msg, env) ==
    IF h.cmds # <<>> THEN h ELSE updateSwitch(h.a, msg, env)

\* App.Update.  Returns the App and the commands of the returned tea.Cmd.
Update(a, msg, env) == updateAfter(handleStateChange(a, msg), msg, env)

\* NewApp followed by App.Init on the scanned directory `root`
NewAppOn(legacy, debugEnabled, order, root) ==
    LET a == [focused |-> FileTreePanel,
              menuBindingMode |-> FALSE,
              debugMode |-> debugEnabled,
              lastDebugInfo |-> "",
              width |-> 0,
              height |-> 0,
              fileTree |-> NewFileTreeModel({}),
              selectedFiles |-> NewSelectedFilesModel,
              chat |-> NewChatModel(<<>>),
              promptDialog |-> NewPromptDialogModel,
              personaDialog |-> SetActivePersonas(NewPersonaDialogModel, <<"default">>),
              workspace |-> [SelectedFiles |-> <<>>, ChatInput |-> <<>>,
                             ActivePersonas |-> <<"default">>],
              \* GetWorkspace saves the record it hands out
              persisted |-> [SelectedFiles |-> <<>>, ChatInput |-> <<>>,
                             ActivePersonas |-> <<"default">>],
              settingsManager |-> [legacy |-> legacy]]
        a1 == updateSelectedFilesFromSelection(a, a.fileTree.selected, order)
    IN [a1 EXCEPT !.fileTree = FileTreeInit(a1.fileTree, root)]

\* NewApp followed by App.Init: the App as the event loop first sees it
NewApp(legacy, debugEnabled, order) == NewAppOn(legacy, debugEnabled, order, ScannedRoot)

\* ------------------------------------------------------------------------
\* The event loop

\* What Update draws from its environment: the orders in which the two map
\* loops of the FileSelectionMsg case run, and whether prompt.Build succeeds
DefaultOrder == CHOOSE o \in Orders : TRUE

EnvsFor(msg) ==
    IF msg.type = "FileSelectionMsg"
    THEN [order : Orders, order2 : Orders, buildOK : {TRUE}, clipboardOK : {TRUE}]
    ELSE IF msg.type = "KeyMsg" /\ msg.key = "ctrl+s"
    THEN [order : {DefaultOrder}, order2 : {DefaultOrder}, buildOK : BOOLEAN,
          clipboardOK : {TRUE}]
    ELSE IF msg.type = "KeyMsg" /\ msg.key = "ctrl+y"
    THEN [order : {DefaultOrder}, order2 : {DefaultOrder}, buildOK : BOOLEAN,
          clipboardOK : BOOLEAN]
    ELSE [order : {DefaultOrder}, order2 : {DefaultOrder}, buildOK : {TRUE},
          clipboardOK : {TRUE}]

\* the message a command delivers, computed when the command runs
MsgOf(a, c) ==
    CASE c.type = "toggleDebugMode" -> DebugModeChangeMsg(~a.debugMode)
      [] c.type = "ChatInputMsg" -> [type |-> "ChatInputMsg", Content |-> a.chat.text]
      [] OTHER -> c

RECURSIVE SeqToBag(_)
SeqToBag(s) == IF s = <<>> THEN EmptyBag ELSE SetToBag({Head(s)}) (+) SeqToBag(Tail(s))

IsQuit(c) == c = Quit

IsPanic(c) == c = Panic

\* the call ends the program: tea.Quit was returned or the call panicked
ends(cs) == \E i \in 1..Len(cs) : IsQuit(cs[i]) \/ IsPanic(cs[i])

\* the commands the runtime starts: all but tea.Quit, which ends the program
started(cs) == SeqToBag(SelectSeq(cs, LAMBDA c : ~IsQuit(c) /\ ~IsPanic(c)))

\* the event loop takes the result r of Update
took(r, rest) ==
    /\ Len(r.a.chat.text) <= MaxChatLen
    /\ BagCardinality(rest (+) started(r.cmds)) <= MaxPending
    /\ app' = r.a
    /\ cmds' = r.cmds
    /\ pending' = rest (+) started(r.cmds)
    /\ quit' = ends(r.cmds)

\* Update calls prompt.Build for the message: ctrl+y with no prompt on
\* display, ctrl+s when it gets as far as the key switch
callsBuild(a, msg) ==
    /\ msg.type = "KeyMsg"
    /\ \/ msg.key = "ctrl+y" /\ ~(a.promptDialog.visible /\ a.promptDialog.content # "")
       \/ /\ msg.key = "ctrl+s"
          /\ ~PersonaDialogIsVisible(a.personaDialog)
          /\ ~a.promptDialog.visible
          /\ handleMenuActivation(a, msg) = <<>>
          /\ msg.key # DebugToggleKey

\* the record of a prompt.Build call
BuildCall(failed) == [call |-> "Build", text |-> <<>>, node |-> <<>>, err |-> failed]

\* One turn of the event loop: Update handles msg, its commands are started
Step(msg, rest) ==
    /\ ~quit
    /\ \E env \in EnvsFor(msg) :
          /\ took(Update(app, msg, env), rest)
          /\ built' = IF callsBuild(app, msg) THEN BuildCall(~env.buildOK) ELSE built
    /\ lastMsg' = msg
    /\ lastCall' = "Update"
    /\ UNCHANGED <<gm, query, disk, sm, sys>>

KeyPressOf(K) == \E k \in K : Step(KeyMsg(k), pending)

\* the keys that move the focus, switch the modes or end the program
FocusKeys == {"tab", "shift+tab", "alt+m", "f11", "a"}

\* the keys that open and close the prompt dialog and act on the panels
ModalKeys == {"ctrl+s", "esc", "q", "down", "a"}

\* keys no shortcut is bound to
OrdinaryKeys == {"a", "down"}

\* the Escape key: the terminal library names it "esc"; "escape" is the
\* string the key switch of Update compares with
EscapeKeys == {"esc", "escape"}

\* the keys that select a file, remove a selected file and move the focus
SelectKeys == {" ", "delete", "tab", "shift+tab"}

\* the keys of the file tree: cursor moves, selection and expansion
TreeKeys == {"up", "down", "pgup", "pgdown", "home", "end", " ", "enter"}

\* the keys that only move the file tree's cursor
MoveKeys == {"up", "k", "down", "j", "pgup", "ctrl+b", "pgdown", "ctrl+f",
             "home", "g", "end", "G"}

\* the keys pressed while messages are also sent from outside
SendKeys == {"tab", "shift+tab", "f11", "a"}

FocusKeyPress == KeyPressOf(FocusKeys)
ModalKeyPress == KeyPressOf(ModalKeys)
OrdinaryKeyPress == KeyPressOf(OrdinaryKeys)
SendKeyPress == KeyPressOf(SendKeys)
EscapeKeyPress == KeyPressOf(EscapeKeys)
SelectKeyPress == KeyPressOf(SelectKeys)
TreeKeyPress == KeyPressOf(TreeKeys)

\* the keys that walk the file tree and open and close its directories
DeepKeys == {"up", "down", "enter"}

DeepKeyPress == KeyPressOf(DeepKeys)

\* the keys that show and copy the prompt, select a file and close the dialog
BuildKeys == {"ctrl+s", "ctrl+y", " ", "down", "esc"}

BuildKeyPress == KeyPressOf(BuildKeys)

\* the points a click is tried at: inside and on the edge of every band
ClickXs(a) == {0, LeftPanelWidth(a.width) - 1, LeftPanelWidth(a.width), a.width - 1} \cap Nat
ClickYs(a) ==
    LET t == HeaderHeight + TopPanelHeight(a.height)
        b == t + BottomPanelHeight(a.height)
        f == b + FooterHeight
    IN {0, HeaderHeight - 1, HeaderHeight, t - 1, t, b - 1, b, f - 1, f} \cap Nat

\* a click of the left mouse button
Click == \E x \in ClickXs(app), y \in ClickYs(app) : Step(MouseMsg("left", x, y), pending)

\* one point inside the header and inside each panel's rectangle
PanelPoints(a) ==
    LET t == HeaderHeight + TopPanelHeight(a.height)
        b == t + BottomPanelHeight(a.height)
    IN {pt \in {<<0, 0>>, <<0, HeaderHeight>>, <<a.width - 1, HeaderHeight>>,
                 <<0, t>>, <<0, b>>} : pt[1] >= 0 /\ pt[2] >= 0}

\* a click of the left mouse button on a panel
PanelClick == \E pt \in PanelPoints(app) : Step(MouseMsg("left", pt[1], pt[2]), pending)

\* the terminal is resized
TermSizes == {<<0, 0>>, <<SmallWidth, SmallHeight>>, <<LargeWidth, LargeHeight>>}

Resize == \E sz \in TermSizes : Step(WindowSizeMsg(sz[1], sz[2]), pending)

\* the terminal reports its first size
ResizeSmall == Step(WindowSizeMsg(SmallWidth, SmallHeight), pending)

\* the result of a command arrives
Deliver ==
    \E c \in BagToSet(pending) :
        Step(MsgOf(app, c), pending (-) SetToBag({c}))

\* a state-change message sent to the program from outside
Send == \E m \in StateChangeMsgs : Step(m, pending)

\* handleStateChange called on its own, the way the state tests drive it
HandleStateChange ==
    \E m \in StateChangeMsgs \cup {KeyMsg("a")} :
        LET r == handleStateChange(app, m)
        IN /\ ~quit
           /\ app' = r.a
           /\ cmds' = r.cmds
           /\ lastMsg' = m
           /\ lastCall' = "handleStateChange"
           /\ UNCHANGED <<pending, quit, gm, query, disk, built, sm, sys>>

\* neither a scan nor a file tree generation was made yet
NoCall == [call |-> "none", text |-> <<>>, node |-> <<>>, err |-> FALSE]

\* no ShouldIgnore call was made yet
NoQuery == [asked |-> FALSE, path |-> <<>>, isDir |-> FALSE, ignored |-> FALSE]

Init ==
    /\ \E legacy \in BOOLEAN, dbg \in BOOLEAN :
          app = NewApp(legacy, dbg, DefaultOrder)
    /\ pending = EmptyBag
    /\ cmds = <<>>
    /\ lastMsg = NoMsg
    /\ lastCall = "none"
    /\ quit = FALSE
    /\ gm = NewGitignoreMatcher(<<>>)
    /\ query = NoQuery
    /\ disk = DiskOf(ExampleDir, FALSE, <<>>)
    /\ built = NoCall
    /\ sm = NewSettingsManager(NoFile)
    /\ sys = SystemWith(NoFile)

\* the sizes a terminal reports, the degenerate ones included
ReportedSizes ==
    {<<-1, SmallHeight>>, <<SmallWidth, 0>>, <<0, 0>>, <<SmallWidth, SmallHeight>>,
     <<LargeWidth, LargeHeight>>, <<SmallWidth, LargeHeight>>}

\* the terminal reports any of these sizes
ResizeAny == \E sz \in ReportedSizes : Step(WindowSizeMsg(sz[1], sz[2]), pending)

\* a LayoutChangeMsg sent to the program
SendLayout == \E w \in Widths, h \in Heights : Step(LayoutChangeMsg(w, h), pending)

\* the program started on a directory with files or on an empty one, with
\* the default settings
InitTree ==
    /\ \E root \in {ScannedRoot, EmptyRoot} :
          app = NewAppOn(FALSE, FALSE, DefaultOrder, root)
    /\ pending = EmptyBag
    /\ cmds = <<>>
    /\ lastMsg = NoMsg
    /\ lastCall = "none"
    /\ quit = FALSE
    /\ gm = NewGitignoreMatcher(<<>>)
    /\ query = NoQuery
    /\ disk = DiskOf(ExampleDir, FALSE, <<>>)
    /\ built = NoCall
    /\ sm = NewSettingsManager(NoFile)
    /\ sys = SystemWith(NoFile)

\* the centralized handler driven directly
NextHandler == HandleStateChange

SpecHandler == Init /\ [][NextHandler]_vars

\* the program under the input that moves the focus
NextFocus == FocusKeyPress \/ Click \/ Resize \/ Deliver

SpecFocus == Init /\ [][NextFocus]_vars

\* the same with state-change messages also sent from outside
NextSend == SendKeyPress \/ PanelClick \/ Deliver \/ Send

SpecSend == Init /\ [][NextSend]_vars

\* Update and the handler both called by a test
NextHarness == HandleStateChange \/ OrdinaryKeyPress \/ Deliver

SpecHarness == Init /\ [][NextHarness]_vars

\* the program with the prompt dialog opened and closed
NextModal == ModalKeyPress \/ PanelClick \/ ResizeSmall \/ Deliver

SpecModal == Init /\ [][NextModal]_vars

\* the program under resizes and layout messages
NextLayout == ResizeAny \/ SendLayout \/ Deliver

SpecLayout == Init /\ [][NextLayout]_vars

\* menu mode entered through the handler, Escape pressed in Update
NextEscape == HandleStateChange \/ EscapeKeyPress \/ Deliver

SpecEscape == Init /\ [][NextEscape]_vars

\* files selected in the tree and removed in the selected-files panel
NextSelect == SelectKeyPress \/ Deliver

SpecSelect == Init /\ [][NextSelect]_vars

\* the file tree panel under its keys, in terminals of several sizes
NextTree == TreeKeyPress \/ Resize \/ Deliver

SpecTree == InitTree /\ [][NextTree]_vars

\* the program started on the directory with nested directories
InitDeep ==
    /\ app = NewAppOn(FALSE, FALSE, DefaultOrder, DeepRoot)
    /\ pending = EmptyBag
    /\ cmds = <<>>
    /\ lastMsg = NoMsg
    /\ lastCall = "none"
    /\ quit = FALSE
    /\ gm = NewGitignoreMatcher(<<>>)
    /\ query = NoQuery
    /\ disk = DiskOf(ExampleDir, FALSE, <<>>)
    /\ built = NoCall
    /\ sm = NewSettingsManager(NoFile)
    /\ sys = SystemWith(NoFile)

NextDeep == DeepKeyPress \/ ResizeSmall \/ Deliver

SpecDeep == InitDeep /\ [][NextDeep]_vars

\* the keys that move the cursor down the file tree
SizeKeys == {"down", "end"}

SizeKeyPress == KeyPressOf(SizeKeys)

\* terminals in which the file tree's content width or height is not positive
TinySizes == {<<TinyWidth, TinyHeight>>, <<TinyWidth, LargeHeight>>,
              <<LargeWidth, TinyHeight>>}

\* the terminal is resized to one of these
ResizeTiny == \E sz \in TinySizes : Step(WindowSizeMsg(sz[1], sz[2]), pending)

\* the file tree panel resized to terminals of every size, its cursor moved
NextSize == ResizeTiny \/ Resize \/ SizeKeyPress \/ Deliver

SpecSize == InitTree /\ [][NextSize]_vars

\* the keys that select files in the tree, remove them in the selected-files
\* panel and move between the two
PersistKeys == {" ", "down", "enter", "delete", "tab"}

PersistKeyPress == KeyPressOf(PersistKeys)

\* two files selected and removed while the messages of both are in flight
NextPersist == PersistKeyPress \/ Deliver

SpecPersist == InitTree /\ [][NextPersist]_vars

\* the keys that enter menu mode, open the prompt dialog and the persona
\* dialog, and close them
DialogKeys == {"alt+m", "ctrl+s", "p", "esc"}

DialogKeyPress == KeyPressOf(DialogKeys)

\* handleStateChange called on its own with a MenuModeChangeMsg
HandleMenuModeChange ==
    \E e \in BOOLEAN :
        /\ ~quit
        /\ app' = handleStateChange(app, MenuModeChangeMsg(e)).a
        /\ cmds' = handleStateChange(app, MenuModeChangeMsg(e)).cmds
        /\ lastMsg' = MenuModeChangeMsg(e)
        /\ lastCall' = "handleStateChange"
        /\ UNCHANGED <<pending, quit, gm, query, disk, built, sm, sys>>

\* menu mode entered by key or through the handler, the dialogs opened and
\* closed by keys
NextDialogs == HandleMenuModeChange \/ DialogKeyPress \/ Deliver

SpecDialogs == Init /\ [][NextDialogs]_vars

\* the settings manager was built on a settings file that loads
InitSettings ==
    /\ app = NewApp(FALSE, FALSE, DefaultOrder)
    /\ pending = EmptyBag
    /\ cmds = <<>>
    /\ lastMsg = NoMsg
    /\ lastCall = "none"
    /\ quit = FALSE
    /\ gm = NewGitignoreMatcher(<<>>)
    /\ query = NoQuery
    /\ disk = DiskOf(ExampleDir, FALSE, <<>>)
    /\ built = NoCall
    /\ \E file \in {f \in ConfigFiles : loadUnsafe(getDefaultSettings, f).err = ""} :
          /\ sm = NewSettingsManager(file)
          /\ sys = SystemWith(file)

\* the variables of the program outside the settings
nonSettings == <<app, pending, cmds, lastMsg, lastCall, quit, gm, query, disk, built>>

\* the settings file is written, removed or made unreadable; the open
\* watchers get the event
WriteOf(files) ==
    \E file \in files :
        /\ file # sys.file
        /\ sys' = [sys EXCEPT !.file = file, !.call = "write",
                              !.watchers = notifyWatchers(sys.watchers)]
        /\ UNCHANGED <<sm, nonSettings>>

WriteConfig == WriteOf(ConfigFiles)

\* the files written while the settings are watched: valid ones, one that is
\* no TOML and one that fails validation
WatchedFiles ==
    {NoFile, GarbledFile,
     TomlFile(UserSettings(KeyAltM, <<>>, <<>>, <<>>, <<>>, 5)),
     TomlFile(UserSettings(KeyHyperM, <<>>, <<>>, <<>>, <<>>, 5))}

WatchedWrite == WriteOf(WatchedFiles)

\* the program set its callback and watches nothing yet
InitWatch ==
    /\ app = NewApp(FALSE, FALSE, DefaultOrder)
    /\ pending = EmptyBag
    /\ cmds = <<>>
    /\ lastMsg = NoMsg
    /\ lastCall = "none"
    /\ quit = FALSE
    /\ gm = NewGitignoreMatcher(<<>>)
    /\ query = NoQuery
    /\ disk = DiskOf(ExampleDir, FALSE, <<>>)
    /\ built = NoCall
    /\ sm = [NewSettingsManager(NoFile) EXCEPT !.onChange = TRUE]
    /\ sys = SystemWith(NoFile)

\* StartWatching; created: the watcher could be created and added
StartWatching ==
    \E created \in BOOLEAN :
        /\ Len(sys.watchers) < MaxWatchers
        /\ IF sm.watcher # 0
           THEN /\ sys' = [sys EXCEPT !.err = "already watching config file",
                                      !.call = "StartWatching"]
                /\ sm' = sm
           ELSE IF ~created
           THEN /\ sys' = [sys EXCEPT !.err = "failed to create file watcher",
                                      !.call = "StartWatching"]
                /\ sm' = sm
           ELSE /\ sm' = [sm EXCEPT !.watcher = Len(sys.watchers) + 1]
                /\ sys' = [sys EXCEPT
                             !.err = "", !.call = "StartWatching",
                             !.watchers = Append(@, NewWatcher),
                             !.loops = Append(assigned(@, Len(sys.watchers) + 1),
                                              NewLoop(Len(sys.watchers) + 1))]
        /\ UNCHANGED nonSettings

\* StopWatching
StopWatching ==
    /\ IF sm.watcher = 0
       THEN /\ sys' = [sys EXCEPT !.err = "", !.call = "StopWatching"]
            /\ sm' = sm
       ELSE /\ sm' = [sm EXCEPT !.watcher = 0]
            /\ sys' = [sys EXCEPT !.err = "", !.call = "StopWatching",
                                  !.watchers[sm.watcher].closed = TRUE,
                                  !.loops = assigned(@, 0)]
    /\ UNCHANGED nonSettings

\* watchLoop reaches its select statement
LoopSelect ==
    \E g \in DOMAIN sys.loops :
        /\ sys.loops[g].pc = "select"
        /\ \E i \in 1..Len(sys.loops[g].may) :
             \E j \in i..Len(sys.loops[g].may) :
                sys' = [sys EXCEPT !.loops[g] = selected(@, i, j), !.call = "watchLoop"]
        /\ UNCHANGED <<sm, nonSettings>>

\* watchLoop finds a channel closed and returns
LoopReturn ==
    \E g \in DOMAIN sys.loops :
        /\ sys.loops[g].pc = "waiting"
        /\ sys.watchers[sys.loops[g].ev].closed \/ sys.watchers[sys.loops[g].er].closed
        /\ sys' = [sys EXCEPT !.loops[g].pc = "done", !.call = "watchLoop"]
        /\ UNCHANGED <<sm, nonSettings>>

\* watchLoop receives the event of a write to the settings file and calls
\* reloadAndNotify
LoopEvent ==
    \E g \in DOMAIN sys.loops :
        /\ sys.loops[g].pc = "waiting"
        /\ ~sys.watchers[sys.loops[g].ev].closed
        /\ sys.watchers[sys.loops[g].ev].events > 0
        /\ sm' = [sm EXCEPT !.settings = loadUnsafe(sm.settings, sys.file).settings]
        /\ sys' = [sys EXCEPT
                     !.loops[g].pc = "select",
                     !.watchers[sys.loops[g].ev].events = @ - 1,
                     !.err = loadUnsafe(sm.settings, sys.file).err,
                     !.notified = notifies(sm, loadUnsafe(sm.settings, sys.file)),
                     !.call = "reloadAndNotify"]
        /\ UNCHANGED nonSettings

NextWatch ==
    StartWatching \/ StopWatching \/ LoopSelect \/ LoopReturn \/ LoopEvent \/ WatchedWrite

SpecWatch == InitWatch /\ [][NextWatch]_vars

\* Reload: loadUnsafe under the mutex
Reload ==
    /\ sm' = [sm EXCEPT !.settings = loadUnsafe(sm.settings, sys.file).settings]
    /\ sys' = [sys EXCEPT !.err = loadUnsafe(sm.settings, sys.file).err,
                          !.call = "Reload"]
    /\ UNCHANGED <<app, pending, cmds, lastMsg, lastCall, quit, gm, query, disk, built>>

\* the settings file rewritten while it is watched, and reloaded by hand
NextReload == StartWatching \/ LoopSelect \/ LoopEvent \/ WatchedWrite \/ Reload

SpecReload == InitWatch /\ [][NextReload]_vars

NextSettings == WriteConfig \/ Reload

SpecSettings == InitSettings /\ [][NextSettings]_vars

NextBuild == BuildKeyPress \/ Deliver

SpecBuild == Init /\ [][NextBuild]_vars

\* the matcher was built for a root directory holding one of the .gitignore
\* files
InitIgnore ==
    /\ app = NewApp(FALSE, FALSE, DefaultOrder)
    /\ pending = EmptyBag
    /\ cmds = <<>>
    /\ lastMsg = NoMsg
    /\ lastCall = "none"
    /\ quit = FALSE
    /\ \E lines \in GitignoreFiles : gm = NewGitignoreMatcher(lines)
    /\ query = NoQuery
    /\ disk = DiskOf(ExampleDir, FALSE, <<>>)
    /\ built = NoCall
    /\ sm = NewSettingsManager(NoFile)
    /\ sys = SystemWith(NoFile)

\* a call of ShouldIgnore on a path below the root, or on the root itself
ShouldIgnoreCall ==
    \E relPath \in QueryPaths, isDir \in BOOLEAN :
        /\ query' = [asked |-> TRUE, path |-> relPath, isDir |-> isDir,
                      ignored |-> ShouldIgnore(gm, relPath, isDir)]
        /\ UNCHANGED <<app, pending, cmds, lastMsg, lastCall, quit, gm, disk, built, sm, sys>>

NextIgnore == ShouldIgnoreCall

SpecIgnore == InitIgnore /\ [][NextIgnore]_vars

\* the program was started on one of the directories, with or without a
\* .gitignore in it
InitPrompt ==
    /\ app = NewApp(FALSE, FALSE, DefaultOrder)
    /\ pending = EmptyBag
    /\ cmds = <<>>
    /\ lastMsg = NoMsg
    /\ lastCall = "none"
    /\ quit = FALSE
    /\ gm = NewGitignoreMatcher(<<>>)
    /\ query = NoQuery
    /\ disk \in Disks(ReadableDirs \cup DamagedDirs)
    /\ built = NoCall
    /\ sm = NewSettingsManager(NoFile)
    /\ sys = SystemWith(NoFile)

\* a call of generateFileTree on the root; it builds the matcher from the
\* root's .gitignore
GenerateFileTree ==
    /\ built' = [call |-> "generateFileTree", text |-> generateFileTree(disk).text,
                 node |-> <<>>, err |-> generateFileTree(disk).err]
    /\ gm' = NewGitignoreMatcher(disk.gitignore)
    /\ UNCHANGED <<app, pending, cmds, lastMsg, lastCall, quit, query, disk, sm, sys>>

\* a call of ScanDirectory on the root
Scan ==
    /\ built' = [call |-> "ScanDirectory", text |-> <<>>,
                 node |-> ScanDirectory(disk.root, Dot).node,
                 err |-> ScanDirectory(disk.root, Dot).err]
    /\ UNCHANGED <<app, pending, cmds, lastMsg, lastCall, quit, gm, query, disk, sm, sys>>

NextPrompt == GenerateFileTree \/ Scan

SpecPrompt == InitPrompt /\ [][NextPrompt]_vars

\* ------------------------------------------------------------------------
\* Properties of the state machine

Panels == {FileTreePanel, SelectedFilesPanel, ChatPanel, FooterMenuPanel}

\* a message the handler must reject
Rejected(m) ==
    \/ m.type = "FocusChangeMsg" /\ m.Panel \notin Panels
    \/ m.type = "LayoutChangeMsg" /\ (m.Width <= 0 \/ m.Height <= 0)

\* C1: in legacy mode, after every message the handler has processed,
\* menuBindingMode equals (focused = FooterMenuPanel)
C1_LegacyMenuMirrorsFocus ==
    (IsLegacyMode(app) /\ lastCall = "handleStateChange"
        /\ lastMsg.type \in {"FocusChangeMsg", "MenuModeChangeMsg"})
    => (app.menuBindingMode = (app.focused = FooterMenuPanel))

\* C3: a rejected FocusChangeMsg or LayoutChangeMsg leaves focused,
\* menuBindingMode, debugMode, width and height as they were; in debug mode the
\* handler returns the diagnostic alert, otherwise no command
C3_RejectedLeavesState ==
    [][(lastCall' = "handleStateChange" /\ Rejected(lastMsg'))
        => /\ app'.focused = app.focused
           /\ app'.menuBindingMode = app.menuBindingMode
           /\ app'.debugMode = app.debugMode
           /\ app'.width = app.width
           /\ app'.height = app.height
           /\ cmds' = IF app.debugMode THEN <<createAlert("error")>> ELSE <<>>]_vars

\* a rejected message has been handled in debug mode, in a state that earlier
\* messages had moved away from the initial one
C3_Witness ==
    /\ lastCall = "handleStateChange"
    /\ Rejected(lastMsg)
    /\ app.debugMode
    /\ cmds = <<createAlert("error")>>
    /\ app.focused = ChatPanel
    /\ app.width = SmallWidth

\* C5: MenuModeChangeMsg{true} handled while menuBindingMode is false makes
\* menuBindingMode true and moves the focus to the footer, in either mode; a
\* MenuModeChangeMsg that repeats the current mode changes nothing
C5_MenuModeChange ==
    [][(lastCall' = "handleStateChange" /\ lastMsg'.type = "MenuModeChangeMsg")
        => /\ (lastMsg'.Enabled /\ ~app.menuBindingMode)
                => (app'.menuBindingMode /\ app'.focused = FooterMenuPanel)
           /\ (lastMsg'.Enabled = app.menuBindingMode) => app' = app]_vars

\* menu mode has just been enabled by a message, outside legacy mode
C5_Witness ==
    /\ lastCall = "handleStateChange"
    /\ lastMsg = MenuModeChangeMsg(TRUE)
    /\ ~IsLegacyMode(app)
    /\ app.menuBindingMode
    /\ app.focused = FooterMenuPanel

\* C10: DebugModeChangeMsg{e} changes nothing when e is the current debugMode;
\* otherwise debugMode becomes e and a notification command is returned; the
\* focus, the menu mode and the dimensions stay as they were
C10_DebugModeChange ==
    [][(lastCall' = "handleStateChange" /\ lastMsg'.type = "DebugModeChangeMsg")
        => /\ IF lastMsg'.Enabled = app.debugMode
              THEN app' = app
              ELSE app'.debugMode = lastMsg'.Enabled /\ cmds' = <<createAlert("info")>>
           /\ app'.focused = app.focused
           /\ app'.menuBindingMode = app.menuBindingMode
           /\ app'.width = app.width
           /\ app'.height = app.height]_vars

\* debug mode has just been switched off, with the focus and the size set
C10_Witness ==
    /\ lastCall = "handleStateChange"
    /\ lastMsg = DebugModeChangeMsg(FALSE)
    /\ cmds = <<createAlert("info")>>
    /\ ~app.debugMode
    /\ app.focused = FooterMenuPanel
    /\ app.height = SmallHeight

\* C2: for every state-change message delivered to Update, focused and
\* menuBindingMode when Update returns are the values the centralized handler
\* established for that message
C2_UpdateKeepsHandlerState ==
    [][(lastCall' = "Update"
            /\ lastMsg'.type \in {"FocusChangeMsg", "MenuModeChangeMsg",
                                  "DebugModeChangeMsg", "LayoutChangeMsg"})
        => /\ app'.focused = handleStateChange(app, lastMsg').a.focused
           /\ app'.menuBindingMode =
                 handleStateChange(app, lastMsg').a.menuBindingMode]_vars

\* no dialog is on the screen
NoDialogVisible(a) == ~a.promptDialog.visible /\ ~PersonaDialogIsVisible(a.personaDialog)

\* C4: an ordinary key handled by Update with no dialog visible goes to the
\* panel that holds the focus and changes nothing else: focused and
\* menuBindingMode stay, and so does every panel that does not hold the focus,
\* for each of the four focus values
C4_ForwardedToFocusedOnly ==
    [][(lastCall' = "Update" /\ lastMsg'.type = "KeyMsg"
            /\ lastMsg'.key \in OrdinaryKeys /\ NoDialogVisible(app)
            /\ app.focused \in Panels)
        => /\ app'.focused = app.focused
           /\ app'.menuBindingMode = app.menuBindingMode
           /\ (app.focused # FileTreePanel => app'.fileTree = app.fileTree)
           /\ (app.focused # SelectedFilesPanel
                  => app'.selectedFiles = app.selectedFiles)
           /\ (app.focused # ChatPanel => app'.chat = app.chat)]_vars

\* C6: after any sequence of messages processed by Update, focused is one of
\* the four panels
C6_FocusIsAPanel == app.focused \in Panels

\* Update has just rejected, with its diagnostic, a FocusChangeMsg carrying an
\* integer that is no panel, after the focus had been moved
C6_Witness ==
    /\ lastCall = "Update"
    /\ lastMsg = FocusChangeMsg(FooterMenuPanel + PanelMargin)
    /\ cmds = <<createAlert("error")>>
    /\ app.focused = ChatPanel

\* the cyclic order of the panels
PanelAfter(p) == (p + 1) % 4
PanelBefore(p) == (p + 3) % 4

\* C7: once the FocusChange a Tab issued is processed by Update the focus is
\* on the next panel of the cycle FileTree, SelectedFiles, Chat, FooterMenu,
\* and on the previous one for Shift-Tab
C7_TabCycles ==
    [][(lastCall' = "Update" /\ lastCall = "Update" /\ lastMsg.type = "KeyMsg"
            /\ lastMsg.key \in {"tab", "shift+tab"}
            /\ cmds = <<lastMsg'>> /\ lastMsg'.type = "FocusChangeMsg")
        => app'.focused = IF lastMsg.key = "tab" THEN PanelAfter(app.focused)
                          ELSE PanelBefore(app.focused)]_vars

\* what a visible dialog must keep from the input
ModalFrame(a) ==
    <<a.focused, a.menuBindingMode, a.fileTree.cursor, a.fileTree.selected,
      a.fileTree.expanded, a.selectedFiles.files, a.chat.text>>

InputTypes == {"KeyMsg", "MouseMsg"}

\* C8: while a dialog is visible, a key or mouse event, and the commands that
\* event issued, change neither the focus, the menu mode, the file tree's
\* cursor, selection and expansion, the selected-files list nor the chat text,
\* and do not end the program
C8_DialogExclusive ==
    [][(lastCall' = "Update" /\ ~NoDialogVisible(app)
            /\ \/ lastMsg'.type \in InputTypes
               \/ /\ lastCall = "Update" /\ lastMsg.type \in InputTypes
                  /\ \E i \in 1..Len(cmds) : MsgOf(app, cmds[i]) = lastMsg')
        => ModalFrame(app') = ModalFrame(app) /\ ~quit']_vars

\* C9: a left click handled by Update issues the FocusChange for the panel
\* mainLayout draws at the point, and none where no panel is drawn
C9_ClickMatchesLayout ==
    (lastCall = "Update" /\ lastMsg.type = "MouseMsg" /\ lastMsg.button = "left")
    => SelectSeq(cmds, LAMBDA c : c.type = "FocusChangeMsg")
         = IF mainLayout(app, lastMsg.X, lastMsg.Y) = -1 THEN <<>>
           ELSE <<setFocus(mainLayout(app, lastMsg.X, lastMsg.Y))>>

\* a LayoutChangeMsg the handler accepts
AcceptedLayout(m) == m.type = "LayoutChangeMsg" /\ m.Width > 0 /\ m.Height > 0

\* C11: width and height are never negative: both are 0 at the start, an
\* accepted LayoutChangeMsg makes them its strictly positive dimensions, and
\* every other message, rejected layouts and resizes included, leaves them
C11_DimensionsNonNegative ==
    /\ app.width = 0 /\ app.height = 0
    /\ [][/\ app'.width >= 0 /\ app'.height >= 0
          /\ IF AcceptedLayout(lastMsg')
             THEN app'.width = lastMsg'.Width /\ app'.height = lastMsg'.Height
             ELSE app'.width = app.width /\ app'.height = app.height]_vars

\* a LayoutChangeMsg with a negative width has been handled after a size had
\* been accepted
C11_Witness ==
    /\ lastCall = "Update"
    /\ lastMsg.type = "LayoutChangeMsg"
    /\ lastMsg.Width < 0
    /\ app.width = SmallWidth
    /\ app.height = SmallHeight

\* the message is an Escape key press
IsEscape(m) == m.type = "KeyMsg" /\ m.key \in EscapeKeys

\* C12: Escape pressed while menuBindingMode is true ends menu binding mode
\* and puts the focus on ChatPanel, as soon as Update has handled the key and,
\* where the key issued the exit command, that command's message
C12_EscapeExitsMenuMode ==
    [][(lastCall' = "Update"
            /\ \/ /\ app.menuBindingMode /\ NoDialogVisible(app)
                  /\ IsEscape(lastMsg')
                  /\ \A i \in 1..Len(cmds') : cmds'[i] # exitMenuMode
               \/ /\ lastCall = "Update" /\ IsEscape(lastMsg)
                  /\ cmds = <<exitMenuMode>> /\ lastMsg' = exitMenuMode)
        => (~app'.menuBindingMode /\ app'.focused = ChatPanel)]_vars

\* a selection or deselection message is still to be delivered
SelectionPending ==
    \E c \in BagToSet(pending) : c.type \in {"FileSelectionMsg", "FileDeselectionMsg"}

\* the paths the selected-files panel lists
ListedPaths(a) == {a.selectedFiles.files[i].Path : i \in 1..Len(a.selectedFiles.files)}

\* the paths the file tree holds as selected
TreeSelected(a) == {p \in DOMAIN a.fileTree.selected : a.fileTree.selected[p]}

\* C13: whatever the interleaving of key events with the delivery of
\* FileSelectionMsg and FileDeselectionMsg, once none of these is pending the
\* selected-files panel lists exactly the paths selected in the file tree
C13_PanelsAgree == ~SelectionPending => ListedPaths(app) = TreeSelected(app)

\* the file a.txt of the scanned directory
PathA == <<"ws", "a.txt">>

\* C14: a.txt selected alone and listed, a removal key pressed on it in the
\* selected-files panel and nothing else in flight: when the resulting
\* FileDeselectionMsg is delivered the tree holds selected[a.txt] = false and
\* the selected-files list is empty
C14_SelectThenRemove ==
    [][(/\ lastCall = "Update" /\ lastMsg = KeyMsg("delete")
        /\ cmds = <<FileDeselectionMsg(PathA)>>
        /\ pending = SetToBag({FileDeselectionMsg(PathA)})
        /\ TreeSelected(app) = {PathA}
        /\ lastCall' = "Update" /\ lastMsg' = FileDeselectionMsg(PathA))
        => /\ PathA \in DOMAIN app'.fileTree.selected
           /\ ~app'.fileTree.selected[PathA]
           /\ app'.selectedFiles.files = <<>>]_vars

\* the FileDeselectionMsg of a removal has been delivered with nothing left in
\* flight: a.txt is unselected in the tree and the list is empty
C14_Witness ==
    /\ lastCall = "Update"
    /\ lastMsg = FileDeselectionMsg(PathA)
    /\ pending = EmptyBag
    /\ PathA \in DOMAIN app.fileTree.selected
    /\ ~app.fileTree.selected[PathA]
    /\ app.selectedFiles.files = <<>>
    /\ app.focused = SelectedFilesPanel

\* C15: only the file tree's own operations change the selection map and the
\* expansion map: a message that is no key or mouse event, and any message
\* handled while another panel holds the focus, leaves both maps as they were
C15_MapsOwnedByFileTree ==
    [][(lastCall' = "Update"
            /\ \/ lastMsg'.type \notin InputTypes
               \/ app.focused \in {SelectedFilesPanel, ChatPanel})
        => /\ app'.fileTree.selected = app.fileTree.selected
           /\ app'.fileTree.expanded = app.fileTree.expanded]_vars

\* every path of the scanned directory, directories included
AllPaths == FilePaths \cup {<<"ws", "d">>}

\* the file tree's cursor is on the row of a file
OnFileRow(m) ==
    m.cursor >= 0 /\ m.cursor < Len(m.items) /\ ~m.items[m.cursor + 1].IsDir

\* C16: space pressed with the cursor on a file row, then space again on the
\* same row, gives back the selection map the first press started from, for
\* that path (absent counting as false) and for every other path
C16_ToggleTwice ==
    [][(lastCall' = "Update" /\ lastMsg' = KeyMsg(" ")
            /\ app.focused = FileTreePanel /\ OnFileRow(app.fileTree))
        => /\ OnFileRow(app'.fileTree)
           /\ app'.fileTree.cursor = app.fileTree.cursor
           /\ Lookup(app'.fileTree.selected, app.fileTree.items[app.fileTree.cursor + 1].Path)
                 # Lookup(app.fileTree.selected, app.fileTree.items[app.fileTree.cursor + 1].Path)
           /\ \A p \in AllPaths :
                 Lookup(FileTreeUpdate(app'.fileTree, KeyMsg(" ")).m.selected, p)
                   = Lookup(app.fileTree.selected, p)]_vars

\* space was pressed twice in a row on b.txt inside the expanded directory,
\* with a.txt selected: both messages are still in flight, b.txt is back to
\* unselected and a.txt is still selected
C16_Witness ==
    /\ lastCall = "Update"
    /\ lastMsg = KeyMsg(" ")
    /\ pending = SetToBag({FileSelectionMsg}) (+) SetToBag({FileSelectionMsg})
    /\ <<"ws", "d", "b.txt">> \in DOMAIN app.fileTree.selected
    /\ ~app.fileTree.selected[<<"ws", "d", "b.txt">>]
    /\ Lookup(app.fileTree.selected, PathA)

\* C17: the file tree's cursor is always a row of the list, 0 <= cursor < N,
\* and stays 0 on an empty list
C17_CursorInRange ==
    IF Len(app.fileTree.items) = 0 THEN app.fileTree.cursor = 0
    ELSE app.fileTree.cursor >= 0 /\ app.fileTree.cursor < Len(app.fileTree.items)

\* C18: after a cursor move handled by the file tree, with a viewport of
\* height >= 1 and a non-empty list, the cursor is inside the window:
\* offset <= cursor <= offset + height - 1
C18_CursorVisible ==
    [][(lastCall' = "Update" /\ lastMsg'.type = "KeyMsg" /\ lastMsg'.key \in MoveKeys
            /\ app.focused = FileTreePanel
            /\ app'.fileTree.viewport.Height >= 1 /\ Len(app'.fileTree.items) > 0)
        => /\ app'.fileTree.viewport.YOffset <= app'.fileTree.cursor
           /\ app'.fileTree.cursor
                 <= app'.fileTree.viewport.YOffset + app'.fileTree.viewport.Height - 1]_vars

\* the cursor was moved down to the last of three rows in a viewport shorter
\* than the list, which scrolled
C18_Witness ==
    /\ lastCall = "Update"
    /\ lastMsg \in {KeyMsg("down"), KeyMsg("pgdown"), KeyMsg("end")}
    /\ Len(app.fileTree.items) = 3
    /\ app.fileTree.cursor = 2
    /\ app.fileTree.viewport.Height >= 1
    /\ app.fileTree.viewport.Height < 3
    /\ app.fileTree.viewport.YOffset > 0

\* the index of the last pattern whose expression matches the path, 0 when
\* none does
LastMatch(patterns, relPath) ==
    IF \E i \in 1..Len(patterns) : MatchString(patterns[i].Regex, relPath)
    THEN CHOOSE i \in 1..Len(patterns) :
            /\ MatchString(patterns[i].Regex, relPath)
            /\ \A j \in (i + 1)..Len(patterns) :
                  ~MatchString(patterns[j].Regex, relPath)
    ELSE 0

\* C19: ShouldIgnore reports the outcome of the last pattern, in file order,
\* whose expression matches the path: ignored when that pattern is a normal
\* one, kept when it is a negation; a path no pattern matches is kept.
C19_LastMatchDecides ==
    (query.asked /\ query.path # Dot) =>
        IF LastMatch(gm.patterns, query.path) = 0
        THEN ~query.ignored
        ELSE query.ignored = ~gm.patterns[LastMatch(gm.patterns, query.path)].IsNegative

\* "*.log" then "!important.log": important.log was asked about and is kept
C19_Witness ==
    /\ Len(gm.patterns) = 2
    /\ gm.patterns[1].Pattern = StarLog /\ ~gm.patterns[1].IsNegative
    /\ gm.patterns[2].Pattern = ImportantLog /\ gm.patterns[2].IsNegative
    /\ query.asked /\ query.path = ImportantLog /\ ~query.ignored
    /\ LastMatch(gm.patterns, query.path) = 2

\* the directories above a path: what stands before each of its slashes
Ancestors(relPath) ==
    {SubSeq(relPath, 1, i - 1) : i \in {k \in 2..Len(relPath) : relPath[k] = "/"}}

\* the directory-only patterns matching a directory above the path, with no
\* later negation matching the path itself
CoveringDirPatterns(patterns, relPath) ==
    {i \in 1..Len(patterns) :
        /\ patterns[i].IsDir /\ ~patterns[i].IsNegative
        /\ \E dir \in Ancestors(relPath) : MatchString(patterns[i].Regex, dir)
        /\ \A j \in (i + 1)..Len(patterns) :
              ~(patterns[j].IsNegative /\ MatchString(patterns[j].Regex, relPath))}

\* C20: when a directory-only pattern matches a directory, every path below
\* that directory, at any depth, is reported as ignored, unless a later
\* negation matches that path.
C20_NestedIgnored ==
    (query.asked /\ CoveringDirPatterns(gm.patterns, query.path) # {}) =>
        query.ignored

\* "build/" alone: build/sub/output.txt, two levels down, is ignored
C20_Witness ==
    /\ Len(gm.patterns) = 1
    /\ gm.patterns[1].Pattern = Build /\ gm.patterns[1].IsDir
    /\ query.asked /\ query.path = BuildSubOutput /\ query.ignored
    /\ CoveringDirPatterns(gm.patterns, query.path) = {1}

\* C21: ShouldIgnore never reports the root itself as ignored, whatever the
\* patterns are, those matching every name included.
C21_RootNeverIgnored ==
    (query.asked /\ query.path = Dot) => ~query.ignored

\* a normal pattern whose expression matches "." is loaded, and the root was
\* asked about
C21_Witness ==
    /\ query.asked /\ query.path = Dot /\ ~query.ignored
    /\ \E i \in 1..Len(gm.patterns) :
          /\ gm.patterns[i].Pattern \in {SingleStar, DoubleStar}
          /\ ~gm.patterns[i].IsNegative
          /\ MatchString(gm.patterns[i].Regex, Dot)

\* the node and everything below it
RECURSIVE NodesOf(_)
NodesOf(node) ==
    {node} \cup UNION {NodesOf(node.Children[i]) : i \in 1..Len(node.Children)}

\* path p lies below directory d
Below(p, d) == Len(p) > Len(d) /\ SubSeq(p, 1, Len(d)) = d

\* the paths of the rows, in order
RowPaths(items) == [i \in 1..Len(items) |-> items[i].Path]

\* every directory with a row shows the rows of its children exactly when the
\* expansion map holds true for it
ChildRowsFollowMap(m) ==
    \A i \in 1..Len(m.items) :
        m.items[i].IsDir =>
            \A node \in NodesOf(m.rootNode[1]) :
                node.Path = m.items[i].Path =>
                    \A k \in 1..Len(node.Children) :
                        (\E j \in 1..Len(m.items) :
                             m.items[j].Path = node.Children[k].Path)
                        <=> Lookup(m.expanded, node.Path)

\* directory d, which has a row, went from expanded to collapsed
Collapsed(m, n, d) ==
    /\ \E i \in 1..Len(m.items) : m.items[i].Path = d /\ m.items[i].IsDir
    /\ Lookup(m.expanded, d) /\ ~Lookup(n.expanded, d)
    /\ \A x \in DOMAIN m.expanded : x # d => Lookup(n.expanded, x) = m.expanded[x]

\* the rows without those below d, the row of d itself shown as collapsed
WithoutRowsBelow(items, d) ==
    LET kept == SelectSeq(items, LAMBDA it : ~Below(it.Path, d))
    IN [i \in 1..Len(kept) |->
           IF kept[i].Path = d THEN [kept[i] EXCEPT !.Expanded = FALSE] ELSE kept[i]]

\* C22: the child rows of a directory that has a row appear exactly when the
\* expansion map holds true for it; collapsing a directory removes the rows
\* below it, those of its own expanded directories included, and leaves every
\* other row and the order of the rows as they were.
C22_RowsFollowExpansion ==
    /\ ChildRowsFollowMap(app.fileTree)
    /\ [][/\ ChildRowsFollowMap(app'.fileTree)
          /\ \A d \in {<<"ws", "d">>, <<"ws", "d", "e">>} :
                Collapsed(app.fileTree, app'.fileTree, d) =>
                    app'.fileTree.items = WithoutRowsBelow(app.fileTree.items, d)]_vars

\* d was collapsed by the last key while e, inside it, is still expanded:
\* only the three rows of the top level are left
C22_Witness ==
    /\ lastMsg = KeyMsg("enter")
    /\ ~Lookup(app.fileTree.expanded, <<"ws", "d">>)
    /\ Lookup(app.fileTree.expanded, <<"ws", "d", "e">>)
    /\ RowPaths(app.fileTree.items) = << <<"ws", "a.txt">>, <<"ws", "d">>, <<"ws", "z.txt">> >>

\* the rows are those a further call on the same tree and maps returns
SameRowsAgain(m) == refreshItems(m).items = m.items

\* the expansion map differs at most at the directory under the cursor
OnlyToggled(m, n) ==
    \A p \in (DOMAIN m.expanded) \cup (DOMAIN n.expanded) :
        (p \notin DOMAIN m.expanded \/ n.expanded[p] # m.expanded[p]) =>
            /\ m.cursor >= 0 /\ m.cursor < Len(m.items)
            /\ m.items[m.cursor + 1].Path = p /\ m.items[m.cursor + 1].IsDir
            /\ p \in DOMAIN n.expanded
            /\ n.expanded[p] = ~Lookup(m.expanded, p)

RECURSIVE EntriesBelow(_, _)
EntriesBelow(entries, dir) ==
    UNION {{[path |-> Join(dir, entries[i].Name), entry |-> entries[i]]}
           \cup EntriesBelow(entries[i].Children, Join(dir, entries[i].Name))
           : i \in 1..Len(entries)}

\* the text has the line of the entry at that path
Lists(text, e) ==
    \E i \in 1..Len(text) : text[i] = TreeLine(e.path, e.entry.Name, EntryIsDir(e.entry))

\* neither the path nor a directory above it is ignored
NothingIgnored(matcher, e) ==
    /\ ~ShouldIgnore(matcher, e.path, EntryIsDir(e.entry))
    /\ \A dir \in Ancestors(e.path) : ~ShouldIgnore(matcher, dir, TRUE)

\* the lines "- root-file.txt", "- subdir/" and "  - nested.txt"
LineRootFile == <<"-", " ">> \o ExampleDir[1].Name
LineSubdir == <<"-", " ">> \o ExampleDir[2].Name \o <<"/">>
LineNested == <<" ", " ", "-", " ">> \o ExampleDir[2].Children[1].Name

\* C24: the generated file tree text lists a path below the root exactly when
\* ShouldIgnore is false for it and for every directory above it below the
\* root.
C24_ListedIffNotIgnored ==
    (built.call = "generateFileTree" /\ ~built.err) =>
        \A e \in EntriesBelow(disk.root.Children, Dot) :
            Lists(built.text, e) <=> NothingIgnored(gm, e)

\* root-file.txt and subdir/nested.txt with the pattern "subdir/": the text
\* has "- root-file.txt" without indent and neither subdir's line nor
\* nested.txt's
C24_Witness ==
    /\ disk = DiskOf(ExampleDir, TRUE, <<SubdirDir>>)
    /\ built.call = "generateFileTree" /\ ~built.err
    /\ \E i \in 1..Len(built.text) : built.text[i] = LineRootFile
    /\ \A i \in 1..Len(built.text) :
          built.text[i] \notin {LineSubdir, LineNested}
          /\ ~(\E k \in 1..Len(built.text[i]) :
                  SubSeq(built.text[i], k, Len(built.text[i])) = Tail(Tail(LineNested)))

\* the expansion map that holds true for every directory of the scanned tree
AllExpanded(root) ==
    [p \in {node.Path : node \in {x \in NodesOf(root) : x.IsDir}} |-> TRUE]

\* the rows as text: level*2 spaces, "- ", the name, "/" for a directory
RenderRows(items) ==
    [i \in 1..Len(items) |->
        Repeat(items[i].Level) \o <<"-", " ">> \o items[i].Name
            \o (IF items[i].IsDir THEN <<"/">> ELSE <<>>)]

\* the rows of the file tree panel for a scanned root, every directory open
PanelRows(root) == FlattenChildren(root.Children, 0, AllExpanded(root))

\* C25: the body of the <filetree> block is the rendering of the rows the
\* flattener yields for the interactive file tree with every directory
\* expanded: the same entries in the same order.
C25_TextIsFlattenedTree ==
    (built.call = "generateFileTree" /\ ~built.err
        /\ ~ScanDirectory(disk.root, Dot).err) =>
        built.text = RenderRows(PanelRows(ScanDirectory(disk.root, Dot).node[1]))

\* C26: when building the prompt fails, the show-prompt key (ctrl+s) and the
\* copy key (ctrl+y) both return an error notification, do not show the
\* prompt dialog, and leave the program running with its selection unchanged.
C26_BuildFailureNotified ==
    [][(callsBuild(app, lastMsg') /\ built'.call = "Build" /\ built'.err)
        => /\ \E i \in 1..Len(cmds') : cmds'[i] = createAlert("error")
           /\ ~app'.promptDialog.visible
           /\ ~quit'
           /\ app'.fileTree.selected = app.fileTree.selected
           /\ app'.selectedFiles = app.selectedFiles
           /\ app'.workspace.SelectedFiles = app.workspace.SelectedFiles]_vars

\* the file sets bindings.menu_mode.activation to "" and no legacy binding
EmptyActivationFile(file) ==
    /\ file.kind = "toml"
    /\ file.settings.Bindings.MenuMode.Activation = <<>>
    /\ ~usesLegacy(file.settings)

\* C27: loading a settings file whose bindings.menu_mode.activation is the
\* empty string, with no legacy bindings, fails with the validation error
\* that menu_mode.activation cannot be empty, and installs no settings.
C27_EmptyActivationRejected ==
    [][(sys'.call = "Reload" /\ EmptyActivationFile(sys.file))
        => /\ sys'.err = "bindings.menu_mode.activation cannot be empty"
           /\ sm'.settings = sm.settings]_vars

\* the watchers that are not closed
OpenWatchers == {w \in DOMAIN sys.watchers : ~sys.watchers[w].closed}

\* the goroutines waiting for the events of watcher w
ConsumersOf(w) ==
    {g \in DOMAIN sys.loops : sys.loops[g].pc = "waiting" /\ sys.loops[g].ev = w}

\* C28: whatever the order of the StartWatching and StopWatching calls, at
\* most one watcher exists and at most one watch-loop goroutine consumes its
\* events; a StartWatching while watching creates no second watcher and a
\* StopWatching while not watching returns no error.
C28_OneWatcherOneLoop ==
    /\ Cardinality(OpenWatchers) <= 1
    /\ OpenWatchers \subseteq {sm.watcher}
    /\ \A w \in DOMAIN sys.watchers : Cardinality(ConsumersOf(w)) <= 1
    /\ (sys.call = "StopWatching" => sys.err = "")

\* the entry can be scanned: it is there and, if a directory, can be listed
Scannable(entry) == entry.Kind \in {"file", "dir"}

\* the entries of a directory that the scan keeps, in listing order
Kept(entries) ==
    SelectSeq(entries, LAMBDA e : ~shouldIgnore(e.Name) /\ Scannable(e))

\* the node is the scan of the entry: its children are the kept entries of
\* the directory, one node each, in listing order
RECURSIVE ScanOf(_, _)
ScanOf(node, entry) ==
    /\ node.Name = entry.Name
    /\ node.IsDir = (entry.Kind = "dir")
    /\ Len(node.Children) = Len(Kept(entry.Children))
    /\ \A i \in 1..Len(node.Children) :
          ScanOf(node.Children[i], Kept(entry.Children)[i])

\* some entry at or below these cannot be scanned
RECURSIVE Damaged(_)
Damaged(entries) ==
    \E i \in 1..Len(entries) : ~Scannable(entries[i]) \/ Damaged(entries[i].Children)

\* C29: when scanning a child entry fails, ScanDirectory leaves that entry
\* out of its parent's children and goes on: every readable sibling that is
\* not excluded is there, in listing order, and the scan of the root returns
\* without error.
C29_ScanSkipsFailedEntries ==
    built.call = "ScanDirectory" =>
        /\ ~built.err
        /\ Len(built.node) = 1
        /\ ScanOf(built.node[1], disk.root)

\* the root with a.txt, a dangling link, an unreadable directory and z.txt
\* was scanned: the root's children are a.txt and z.txt
C29_Witness ==
    /\ built.call = "ScanDirectory" /\ ~built.err
    /\ disk = DiskOf(DamagedDir, FALSE, <<>>)
    /\ Damaged(disk.root.Children)
    /\ [i \in 1..Len(built.node[1].Children) |-> built.node[1].Children[i].Name]
         = <<DamagedDir[1].Name, DamagedDir[4].Name>>

\* C30: FileTreeModel.Update never indexes the item list out of range: for
\* every sequence of navigation, enter and space keys, on any list, the
\* empty one included, and with any viewport height, no key press panics.
C30_NoIndexOutOfRange ==
    \A i \in 1..Len(cmds) : ~IsPanic(cmds[i])
\* the file tree's cursor is on the row of a directory
OnDirRow(m) ==
    m.cursor >= 0 /\ m.cursor < Len(m.items) /\ m.items[m.cursor + 1].IsDir

\* the directories of the scanned directory
DirPaths == AllPaths \ FilePaths

\* the Update call left the file tree's maps, rows and cursor alone and
\* issued no selection snapshot
TreeUntouched ==
    /\ app'.fileTree.selected = app.fileTree.selected
    /\ app'.fileTree.expanded = app.fileTree.expanded
    /\ app'.fileTree.items = app.fileTree.items
    /\ app'.fileTree.cursor = app.fileTree.cursor
    /\ \A i \in 1..Len(cmds') : cmds'[i] # FileSelectionMsg

\* C31: space with the cursor on a directory row, and enter with the cursor
\* on a file row, change neither the selection map, the expansion map, the
\* item list nor the cursor and emit no selection snapshot; no step marks a
\* directory path as selected
C31_WrongRowIsNoOp ==
    [][/\ (lastCall' = "Update" /\ lastMsg' = KeyMsg(" ")
               /\ app.focused = FileTreePanel /\ OnDirRow(app.fileTree))
            => TreeUntouched
       /\ (lastCall' = "Update" /\ lastMsg' = KeyMsg("enter")
               /\ app.focused = FileTreePanel /\ OnFileRow(app.fileTree))
            => TreeUntouched
       /\ \A p \in DirPaths :
              Lookup(app'.fileTree.selected, p) => Lookup(app.fileTree.selected, p)]_vars

\* space was pressed with the cursor on the directory d, after a.txt had
\* been selected: nothing was issued and d is not selected
C31_Witness ==
    /\ lastCall = "Update"
    /\ lastMsg = KeyMsg(" ")
    /\ app.focused = FileTreePanel
    /\ OnDirRow(app.fileTree)
    /\ app.fileTree.items[app.fileTree.cursor + 1].Path = <<"ws", "d">>
    /\ Lookup(app.fileTree.selected, PathA)
    /\ ~Lookup(app.fileTree.selected, <<"ws", "d">>)
    /\ cmds = <<>>

\* the directories of the directory with nested directories
DeepDirs == {<<"ws", "d">>, <<"ws", "d", "e">>}

\* the path of the row under the cursor
CursorPath(m) == m.items[m.cursor + 1].Path

\* C32: enter on a directory row flips expanded[path] of that row and no
\* other expansion entry, leaves the selection map as it was, leaves the
\* rows the flattener gives for the new map, keeps the cursor on the row of
\* the same directory and emits a selection snapshot
C32_EnterTogglesDirectory ==
    [][(lastCall' = "Update" /\ lastMsg' = KeyMsg("enter")
            /\ app.focused = FileTreePanel /\ OnDirRow(app.fileTree))
        => /\ Lookup(app'.fileTree.expanded, CursorPath(app.fileTree))
                 # Lookup(app.fileTree.expanded, CursorPath(app.fileTree))
           /\ \A q \in DeepDirs \ {CursorPath(app.fileTree)} :
                 /\ Lookup(app'.fileTree.expanded, q) = Lookup(app.fileTree.expanded, q)
                 /\ q \in DOMAIN app'.fileTree.expanded
                        <=> q \in DOMAIN app.fileTree.expanded
           /\ app'.fileTree.selected = app.fileTree.selected
           /\ SameRowsAgain(app'.fileTree)
           /\ app'.fileTree.items # app.fileTree.items
           /\ app'.fileTree.cursor = app.fileTree.cursor
           /\ OnDirRow(app'.fileTree)
           /\ CursorPath(app'.fileTree) = CursorPath(app.fileTree)
           /\ cmds' = <<FileSelectionMsg>>]_vars

\* enter was pressed on the row of d while e, inside it, was expanded: d is
\* collapsed, e still counts as expanded, the cursor is on the row of d
C32_Witness ==
    /\ lastCall = "Update"
    /\ lastMsg = KeyMsg("enter")
    /\ OnDirRow(app.fileTree)
    /\ CursorPath(app.fileTree) = <<"ws", "d">>
    /\ ~Lookup(app.fileTree.expanded, <<"ws", "d">>)
    /\ Lookup(app.fileTree.expanded, <<"ws", "d", "e">>)
    /\ cmds = <<FileSelectionMsg>>

\* the file tree after one more enter on the row under its cursor
EnterAgain(m) == FileTreeUpdate(m, KeyMsg("enter")).m

\* C33: enter pressed twice on the row of a directory (expand then collapse,
\* or collapse then expand) gives back the rows the first press started
\* from; the expansion flags of the directories below it are the same all
\* the way, so the rows below a re-expanded directory are those shown before
C33_ToggleTwiceRestoresRows ==
    [][(lastCall' = "Update" /\ lastMsg' = KeyMsg("enter")
            /\ app.focused = FileTreePanel /\ OnDirRow(app.fileTree))
        => /\ EnterAgain(app'.fileTree).items = app.fileTree.items
           /\ EnterAgain(app'.fileTree).cursor = app.fileTree.cursor
           /\ \A q \in DeepDirs :
                 /\ Lookup(EnterAgain(app'.fileTree).expanded, q)
                       = Lookup(app.fileTree.expanded, q)
                 /\ Below(q, CursorPath(app.fileTree)) =>
                       Lookup(app'.fileTree.expanded, q)
                         = Lookup(app.fileTree.expanded, q)]_vars

\* enter was pressed on the row of d with e, inside it, already expanded: e
\* was opened when d was open before, d was collapsed since, and all six
\* rows are back
C33_Witness ==
    /\ lastCall = "Update"
    /\ lastMsg = KeyMsg("enter")
    /\ OnDirRow(app.fileTree)
    /\ CursorPath(app.fileTree) = <<"ws", "d">>
    /\ Lookup(app.fileTree.expanded, <<"ws", "d">>)
    /\ Lookup(app.fileTree.expanded, <<"ws", "d", "e">>)
    /\ RowPaths(app.fileTree.items) =
          << <<"ws", "a.txt">>, <<"ws", "d">>, <<"ws", "d", "e">>,
             <<"ws", "d", "e", "c.txt">>, <<"ws", "d", "b.txt">>, <<"ws", "z.txt">> >>

\* C34: after a cursor move handled by the file tree, with a viewport of
\* height >= 1 and a non-empty list, the offset lies in
\* 0..max(0, len(items) - height), and it moved no further than needed: it
\* is the former offset when the cursor is inside the former window, the
\* cursor when the cursor is above it, cursor - height + 1 when below it
C34_ScrollIsMinimal ==
    [][(lastCall' = "Update" /\ lastMsg'.type = "KeyMsg" /\ lastMsg'.key \in MoveKeys
            /\ app.focused = FileTreePanel
            /\ app'.fileTree.viewport.Height >= 1 /\ Len(app'.fileTree.items) > 0)
        => /\ app'.fileTree.viewport.YOffset >= 0
           /\ app'.fileTree.viewport.YOffset
                 <= max(0, Len(app'.fileTree.items) - app'.fileTree.viewport.Height)
           /\ app'.fileTree.viewport.YOffset =
                 IF app'.fileTree.cursor < app.fileTree.viewport.YOffset
                 THEN app'.fileTree.cursor
                 ELSE IF app'.fileTree.cursor
                           > app.fileTree.viewport.YOffset + app.fileTree.viewport.Height - 1
                 THEN app'.fileTree.cursor - app'.fileTree.viewport.Height + 1
                 ELSE app.fileTree.viewport.YOffset]_vars

\* the up key moved the cursor from the last of three rows to the middle
\* one in a viewport of one line, which scrolled up to it
C34_Witness ==
    /\ lastCall = "Update"
    /\ lastMsg = KeyMsg("up")
    /\ Len(app.fileTree.items) = 3
    /\ app.fileTree.viewport.Height = 1
    /\ app.fileTree.cursor = 1
    /\ app.fileTree.viewport.YOffset = 1

\* the step handled a LayoutChangeMsg that called SetSize on the file tree
SetSizeCalled ==
    /\ lastCall' = "Update"
    /\ AcceptedLayout(lastMsg')
    /\ (app.width # lastMsg'.Width \/ app.height # lastMsg'.Height)

\* the viewport has the size SetSize derives from the panel's size
ViewportSized(m) ==
    /\ m.viewport.Height = max(1, m.height - calculateHeaderContent(m))
    /\ m.viewport.Width = m.width

\* the cursor is inside the viewport's window
CursorInWindow(m) ==
    /\ m.viewport.YOffset <= m.cursor
    /\ m.cursor <= m.viewport.YOffset + m.viewport.Height - 1

\* C35: after SetSize(width, height) with any width and height the App
\* derives from a terminal size, zero and negative ones included, the
\* viewport height is max(1, height - headerHeight), the viewport width is
\* width, and the cursor is inside the viewport's window
C35_SetSizeSizesViewport ==
    [][SetSizeCalled =>
          /\ ViewportSized(app'.fileTree)
          /\ CursorInWindow(app'.fileTree)]_vars

\* the only patterns whose expression matches the path are directory-only
\* patterns whose text is the path itself
OnlyOwnNameDirPatterns(patterns, relPath) ==
    \A i \in 1..Len(patterns) :
        MatchString(patterns[i].Regex, relPath) =>
            patterns[i].IsDir /\ patterns[i].Pattern = relPath

\* C36: a directory-only pattern does not apply to a regular file that bears
\* the pattern's name: ShouldIgnore(path, isDir = false) is false when the
\* only patterns matching the path are directory-only patterns whose text is
\* the path (pattern build/ and a file named build)
C36_DirPatternSparesFile ==
    (query.asked /\ ~query.isDir /\ OnlyOwnNameDirPatterns(gm.patterns, query.path))
        => ~query.ignored

\* the paths of a list, as a set
PathsOf(files) == {files[i] : i \in 1..Len(files)}

\* no path is in the list twice
NoDuplicates(files) ==
    \A i, j \in 1..Len(files) : files[i] = files[j] => i = j

\* C37: after App.Update has handled a FileSelectionMsg or a
\* FileDeselectionMsg, the workspace record written to the configuration
\* file in that step lists, once each, exactly the paths the file tree holds
\* as selected
C37_WorkspaceFollowsSelection ==
    [][(lastCall' = "Update"
            /\ lastMsg'.type \in {"FileSelectionMsg", "FileDeselectionMsg"})
        => /\ PathsOf(app'.workspace.SelectedFiles) = TreeSelected(app')
           /\ NoDuplicates(app'.workspace.SelectedFiles)
           /\ app'.persisted = app'.workspace]_vars

\* C38: however StopWatching and StartWatching interleave with the watch
\* loop, the loop never evaluates m.watcher.Events or m.watcher.Errors on a
\* nil watcher: no goroutine ends in a nil pointer dereference
C38_LoopNeverReadsNilWatcher ==
    \A g \in DOMAIN sys.loops : sys.loops[g].pc # "panicked"

\* the snapshots a load can install: the defaults and what the written files
\* unmarshal to, defaults applied
Snapshots ==
    {getDefaultSettings}
      \cup {validated(applyDefaults(f.settings)) : f \in {g \in WatchedFiles : g.kind = "toml"}}

\* C39: a reload that fails, on a file that is no TOML or on settings that
\* fail validation, leaves the loaded snapshot as it was and does not call
\* onChange; a reader gets the whole old snapshot or the whole new one
C39_FailedReloadKeepsSettings ==
    [][/\ (sys'.call = "reloadAndNotify" /\ sys'.err # "")
            => /\ GetSettings(sm') = GetSettings(sm)
               /\ ~sys'.notified
       /\ (sys'.call = "Reload" /\ sys'.err # "")
            => /\ GetSettings(sm') = GetSettings(sm)
               /\ sys'.notified = sys.notified
       /\ GetSettings(sm') \in {GetSettings(sm)} \cup Snapshots]_vars

\* a reload of settings that fail validation has just failed, after a
\* reload that had replaced the defaults: the replaced settings are still
\* there and the callback was not called
C39_Witness ==
    /\ sys.call = "reloadAndNotify"
    /\ sys.err # ""
    /\ sys.file.kind = "toml"
    /\ ~sys.notified
    /\ GetSettings(sm) # getDefaultSettings
    /\ GetSettings(sm) \in Snapshots

\* C40: the prompt dialog and the persona dialog are never visible at the
\* same time, whatever keys Update has handled
C40_OneDialogAtATime ==
    ~(app.promptDialog.visible /\ app.personaDialog.promptDialog.visible)

\* ctrl+s was pressed while the persona dialog was on display: the prompt
\* was not built and the prompt dialog stayed hidden
C40_Witness ==
    /\ lastCall = "Update"
    /\ lastMsg = KeyMsg("ctrl+s")
    /\ app.personaDialog.promptDialog.visible
    /\ ~app.promptDialog.visible
    /\ built = NoCall

====
